---------------------------- MODULE Spec2Model ----------------------------
(***************************************************************************)
(* A model of the kilo text editor (src/kilo.c): the row store, the        *)
(* highlighter, file load/save, the key dispatcher with its prompts, and   *)
(* the scroll computation.  Bytes are integers (their ASCII codes), byte   *)
(* strings are sequences of bytes, C's int flags are 0/1.                  *)
(***************************************************************************)
EXTENDS Integers, Sequences, FiniteSets, TLC

(***************************************************************************)
(* Program constants                                                       *)
(***************************************************************************)
KILO_TAB_STOP == 8
KILO_QUIT_TIMES == 3

BACKSPACE == 127
ARROW_LEFT == 1000
ARROW_RIGHT == 1001
ARROW_UP == 1002
ARROW_DOWN == 1003
DEL_KEY == 1004
HOME_KEY == 1005
END_KEY == 1006
PAGE_UP == 1007
PAGE_DOWN == 1008

HL_NORMAL == 0
HL_COMMENT == 1
HL_MLCOMMENT == 2
HL_KEYWORD1 == 3
HL_KEYWORD2 == 4
HL_STRING == 5
HL_NUMBER == 6
HL_MATCH == 7

HL_HIGHLIGHT_NUMBERS == 1
HL_HIGHLIGHT_STRINGS == 2

\* Bytes the code names as character literals.
NUL == 0
TAB == 9
LF == 10
CR == 13
ESC == 27
SPACE == 32
DQUOTE == 34
SQUOTE == 39
DOT == 46
BACKSLASH == 92
BAR == 124

\* CTRL_KEY(k) is k & 0x1f; k is a lower-case letter here (0x61..0x7a), so the
\* mask keeps k's low five bits.
CTRL_KEY(k) == k % 32

CTRL_F == CTRL_KEY(102)
CTRL_H == CTRL_KEY(104)
CTRL_L == CTRL_KEY(108)
CTRL_Q == CTRL_KEY(113)
CTRL_S == CTRL_KEY(115)

\* A NULL pointer: E.filename (a byte string otherwise), E.syntax (an index
\* into HLDB otherwise), saved_hl.
NULL == <<>>
NO_SYNTAX == 0

(***************************************************************************)
(* <ctype.h>, "C" locale                                                   *)
(***************************************************************************)
isspace(c) == c \in {32, 9, 10, 11, 12, 13}
isdigit(c) == c \in 48..57
iscntrl(c) == c \in 0..31 \/ c = 127

(***************************************************************************)
(* The file-type table                                                     *)
(***************************************************************************)
C_HL_extensions ==
    << <<46, 99>>,            \* ".c"
       <<46, 104>>,           \* ".h"
       <<46, 99, 112, 112>> >>  \* ".cpp"

C_HL_keywords ==
    << <<115, 119, 105, 116, 99, 104>>,  \* "switch"
       <<105, 102>>,  \* "if"
       <<119, 104, 105, 108, 101>>,  \* "while"
       <<102, 111, 114>>,  \* "for"
       <<98, 114, 101, 97, 107>>,  \* "break"
       <<99, 111, 110, 116, 105, 110, 117, 101>>,  \* "continue"
       <<114, 101, 116, 117, 114, 110>>,  \* "return"
       <<101, 108, 115, 101>>,  \* "else"
       <<115, 116, 114, 117, 99, 116>>,  \* "struct"
       <<117, 110, 105, 111, 110>>,  \* "union"
       <<116, 121, 112, 101, 100, 101, 102>>,  \* "typedef"
       <<115, 116, 97, 116, 105, 99>>,  \* "static"
       <<101, 110, 117, 109>>,  \* "enum"
       <<99, 108, 97, 115, 115>>,  \* "class"
       <<99, 97, 115, 101>>,  \* "case"
       <<105, 110, 116, 124>>,  \* "int|"
       <<108, 111, 110, 103, 124>>,  \* "long|"
       <<100, 111, 117, 98, 108, 101, 124>>,  \* "double|"
       <<102, 108, 111, 97, 116, 124>>,  \* "float|"
       <<99, 104, 97, 114, 124>>,  \* "char|"
       <<117, 110, 115, 105, 103, 110, 101, 100, 124>>,  \* "unsigned|"
       <<115, 105, 103, 110, 101, 100, 124>>,  \* "signed|"
       <<118, 111, 105, 100, 124>> >>  \* "void|"

HLDB ==
    << [filetype |-> <<99>>,                      \* "c"
        filematch |-> C_HL_extensions,
        keywords |-> C_HL_keywords,
        singleline_comment_start |-> <<47, 47>>,  \* "//"
        multiline_comment_start |-> <<47, 42>>,   \* "/*"
        multiline_comment_end |-> <<42, 47>>,     \* "*/"
        flags |-> 3] >>   \* HL_HIGHLIGHT_NUMBERS | HL_HIGHLIGHT_STRINGS

HLDB_ENTRIES == Len(HLDB)

\* flags & bit, for the single-bit masks HL_HIGHLIGHT_NUMBERS and _STRINGS.
HasFlag(flags, bit) == (flags \div bit) % 2 = 1

(***************************************************************************)
(* Evaluation order                                                        *)
(***************************************************************************)
\* F at the value of x.  C evaluates an argument once, before the call; an
\* operator's argument stands for its expression wherever the body reads it.
\* With(x, F) computes x once and hands F the result.
With(x, F(_)) == CHOOSE r \in {F(v) : v \in {x}} : TRUE

(***************************************************************************)
(* C string helpers                                                        *)
(***************************************************************************)
\* strncmp(&s[i], pat, strlen(pat)) == 0, for a NUL-terminated s of Len(s)
\* bytes and i counted from 0.  pat holds no NUL, so a byte at or past the
\* terminator never matches.
StrNEq(s, i, pat) ==
    /\ i + Len(pat) <= Len(s)
    /\ \A k \in 1..Len(pat) : s[i + k] = pat[k]

\* s[i], i counted from 0, of a NUL-terminated string: the terminator at Len(s).
ByteAt(s, i) == IF i < Len(s) THEN s[i + 1] ELSE NUL

\* memset(&hl[i], tag, n), i counted from 0 (the code never passes the end).
MemSet(hl, i, n, tag) ==
    [k \in 1..Len(hl) |-> IF k > i /\ k <= i + n THEN tag ELSE hl[k]]

\* strstr(hay, needle): the offset (from 0) of the first occurrence, -1 for
\* NULL.  hay and needle are NUL-terminated, so only the bytes before their
\* first NUL take part.
CStr(s) ==
    IF \E k \in 1..Len(s) : s[k] = NUL
    THEN SubSeq(s, 1, (CHOOSE k \in 1..Len(s) :
                          s[k] = NUL /\ \A m \in 1..(k-1) : s[m] # NUL) - 1)
    ELSE s

StrStr(hay, needle) ==
    With(CStr(hay), LAMBDA h :
    With(CStr(needle), LAMBDA n :
    With({i \in 0..(Len(h) - Len(n)) : StrNEq(h, i, n) \/ Len(n) = 0},
         LAMBDA hits :
           IF hits = {} THEN -1 ELSE CHOOSE i \in hits : \A m \in hits : i <= m)))

\* strrchr(s, c): the suffix of s from the last c on, NULL when c is not in s.
StrRChr(s, c) ==
    LET at == {k \in 1..Len(s) : s[k] = c}
    IN IF at = {} THEN NULL
       ELSE SubSeq(s, CHOOSE k \in at : \A m \in at : m <= k, Len(s))

(***************************************************************************)
(* Syntax highlighting                                                     *)
(***************************************************************************)
is_separator(c) ==
    \/ isspace(c)
    \/ c = NUL
    \/ c \in {44, 46, 40, 41, 43, 45, 47, 42, 61, 126, 37, 60, 62, 91, 93, 59}
       \* ",.()+-/*=~%<>[];"

\* The keyword loop at position i: the index of the first keyword that
\* matches there and is followed by a separator, 0 when the loop runs to the
\* NULL that ends the list.
KeywordAt(render, i, keywords) ==
    LET klen(j) == IF keywords[j][Len(keywords[j])] = BAR
                   THEN Len(keywords[j]) - 1 ELSE Len(keywords[j])
        hit(j) == /\ StrNEq(render, i, SubSeq(keywords[j], 1, klen(j)))
                  /\ is_separator(ByteAt(render, i + klen(j)))
        js == {j \in 1..Len(keywords) : hit(j)}
    IN IF js = {} THEN 0 ELSE CHOOSE j \in js : \A m \in js : j <= m

\* One pass through the body of editorUpdateSyntax's while loop, on the
\* loop's locals st = [i, hl, prev_sep, in_string, in_comment]; st itself
\* once the loop has ended (i >= rsize, or the break of a "//" comment,
\* recorded as i = rsize: i is not read after the loop).
ScanStep(s, render, st) ==
    LET rsize == Len(render)
        i == st.i
        c == render[i + 1]
        prev_hl == IF i > 0 THEN st.hl[i] ELSE HL_NORMAL
        scs == s.singleline_comment_start
        mcs == s.multiline_comment_start
        mce == s.multiline_comment_end
    IN
    IF i >= rsize THEN st
    ELSE IF /\ Len(scs) # 0 /\ st.in_string = 0 /\ st.in_comment = 0
            /\ StrNEq(render, i, scs)
    THEN [st EXCEPT !.hl = MemSet(@, i, rsize - i, HL_COMMENT), !.i = rsize]
    ELSE IF Len(mcs) # 0 /\ Len(mce) # 0 /\ st.in_string = 0 /\ st.in_comment = 1
    THEN IF StrNEq(render, i, mce)
         THEN [st EXCEPT !.hl = MemSet(@, i, Len(mce), HL_MLCOMMENT),
                         !.i = i + Len(mce), !.in_comment = 0, !.prev_sep = 1]
         ELSE [st EXCEPT !.hl = MemSet(@, i, 1, HL_MLCOMMENT), !.i = i + 1]
    ELSE IF Len(mcs) # 0 /\ Len(mce) # 0 /\ st.in_string = 0 /\ StrNEq(render, i, mcs)
    THEN [st EXCEPT !.hl = MemSet(@, i, Len(mcs), HL_MLCOMMENT),
                    !.i = i + Len(mcs), !.in_comment = 1]
    ELSE IF HasFlag(s.flags, HL_HIGHLIGHT_STRINGS) /\ st.in_string # 0
    THEN IF c = BACKSLASH /\ i + 1 < rsize
         THEN [st EXCEPT !.hl = MemSet(@, i, 2, HL_STRING), !.i = i + 2]
         ELSE [st EXCEPT !.hl = MemSet(@, i, 1, HL_STRING), !.i = i + 1,
                         !.in_string = IF c = @ THEN 0 ELSE @, !.prev_sep = 1]
    ELSE IF HasFlag(s.flags, HL_HIGHLIGHT_STRINGS) /\ c \in {DQUOTE, SQUOTE}
    THEN [st EXCEPT !.hl = MemSet(@, i, 1, HL_STRING), !.i = i + 1,
                    !.in_string = c]
    ELSE IF /\ HasFlag(s.flags, HL_HIGHLIGHT_NUMBERS)
            /\ \/ isdigit(c) /\ (st.prev_sep = 1 \/ prev_hl = HL_NUMBER)
               \/ c = DOT /\ prev_hl = HL_NUMBER
    THEN [st EXCEPT !.hl = MemSet(@, i, 1, HL_NUMBER), !.i = i + 1, !.prev_sep = 0]
    ELSE IF st.prev_sep = 1
    THEN With(KeywordAt(render, i, s.keywords), LAMBDA kw :
           IF kw = 0
           THEN \* the loop reached the list's NULL: prev_sep = 0; continue
                [st EXCEPT !.prev_sep = 0]
           ELSE \* memset, i += klen, break; then the tail of the while body:
                \* prev_sep = is_separator(c); i++
                LET kw2 == s.keywords[kw][Len(s.keywords[kw])] = BAR
                    klen == IF kw2 THEN Len(s.keywords[kw]) - 1
                            ELSE Len(s.keywords[kw])
                IN [st EXCEPT !.hl = MemSet(@, i, klen,
                                       IF kw2 THEN HL_KEYWORD2 ELSE HL_KEYWORD1),
                              !.i = i + klen + 1,
                              !.prev_sep = IF is_separator(c) THEN 1 ELSE 0])
    ELSE [st EXCEPT !.i = i + 1, !.prev_sep = IF is_separator(c) THEN 1 ELSE 0]

\* The locals of editorUpdateSyntax when its while loop is entered.
ScanLocals(render, in_comment) ==
    [i |-> 0, hl |-> [k \in 1..Len(render) |-> HL_NORMAL], prev_sep |-> 1,
     in_string |-> 0, in_comment |-> in_comment]

\* n passes through the loop body, one after the other.
RECURSIVE ScanLoop(_, _, _, _)
ScanLoop(s, render, st, n) ==
    IF n = 1 THEN ScanStep(s, render, st)
    ELSE With(ScanLoop(s, render, st, n \div 2), LAMBDA half :
              ScanLoop(s, render, half, n - n \div 2))

\* The while loop of editorUpdateSyntax on a row that starts inside a
\* comment or not: the locals it ends with.  A pass either moves i on or
\* clears prev_sep and leaves the next pass to move i on, so 2 * rsize + 1
\* passes end the loop.
ScanRow(s, render, in_comment) ==
    ScanLoop(s, render, ScanLocals(render, in_comment), 2 * Len(render) + 1)

\* One call of editorUpdateSyntax on the row at array position `at` (from 0)
\* of `rows`, with E.numrows = numrows and E.syntax = syntax, including the
\* recursive call on the next row.  The neighbours are found through the
\* row's idx field, as in the code.
RECURSIVE editorUpdateSyntax(_, _, _, _)
editorUpdateSyntax(rows, numrows, syntax, at) ==
    LET row == rows[at + 1]
        hl0 == [k \in 1..row.rsize |-> HL_NORMAL]
        in_comment == IF row.idx > 0 /\ rows[row.idx].hl_open_comment # 0
                      THEN 1 ELSE 0
    IN IF syntax = NO_SYNTAX
       THEN [rows EXCEPT ![at + 1].hl = hl0]
       ELSE With(ScanRow(HLDB[syntax], row.render, in_comment), LAMBDA res :
            With([rows EXCEPT ![at + 1].hl = res.hl,
                              ![at + 1].hl_open_comment = res.in_comment],
                 LAMBDA rows2 :
                   IF row.hl_open_comment # res.in_comment /\ row.idx + 1 < numrows
                   THEN editorUpdateSyntax(rows2, numrows, syntax, row.idx + 1)
                   ELSE rows2))

\* editorSelectSyntaxHighlight's match of one pattern against the file name.
FileMatches(filename, pat) ==
    LET ext == StrRChr(filename, DOT)
        is_ext == pat[1] = DOT
    IN \/ is_ext /\ ext # NULL /\ ext = pat
       \/ ~is_ext /\ StrStr(filename, pat) # -1

\* The HLDB entry editorSelectSyntaxHighlight selects for a file name.
SyntaxFor(filename) ==
    LET js == {j \in 1..HLDB_ENTRIES :
                 \E i \in 1..Len(HLDB[j].filematch) :
                    FileMatches(filename, HLDB[j].filematch[i])}
    IN IF filename = NULL \/ js = {} THEN NO_SYNTAX
       ELSE CHOOSE j \in js : \A m \in js : j <= m

\* The loop over all rows that editorSelectSyntaxHighlight runs on a match.
RECURSIVE RehighlightFrom(_, _, _, _)
RehighlightFrom(rows, numrows, syntax, filerow) ==
    IF filerow >= numrows THEN rows
    ELSE With(editorUpdateSyntax(rows, numrows, syntax, filerow), LAMBDA rows2 :
              RehighlightFrom(rows2, numrows, syntax, filerow + 1))

editorSelectSyntaxHighlight(e) ==
    With(SyntaxFor(e.filename), LAMBDA syn :
         IF syn = NO_SYNTAX THEN [e EXCEPT !.syntax = NO_SYNTAX]
         ELSE [e EXCEPT !.syntax = syn,
                        !.row = RehighlightFrom(e.row, e.numrows, syn, 0)])

(***************************************************************************)
(* Row operations                                                          *)
(***************************************************************************)
\* The loop of editorRowCxToRx over chars[0..cx-1].
RECURSIVE CxToRxFrom(_, _, _, _)
CxToRxFrom(chars, cx, j, rx) ==
    IF j >= cx THEN rx
    ELSE With((IF chars[j + 1] = TAB
               THEN rx + (KILO_TAB_STOP - 1) - (rx % KILO_TAB_STOP)
               ELSE rx) + 1,
              LAMBDA rx2 : CxToRxFrom(chars, cx, j + 1, rx2))

editorRowCxToRx(row, cx) == CxToRxFrom(row.chars, cx, 0, 0)

\* The loop of editorRowRxToCx.
RECURSIVE RxToCxFrom(_, _, _, _)
RxToCxFrom(row, rx, cx, cur_rx) ==
    IF cx >= row.size THEN cx
    ELSE With((IF row.chars[cx + 1] = TAB
               THEN cur_rx + (KILO_TAB_STOP - 1) - (cur_rx % KILO_TAB_STOP)
               ELSE cur_rx) + 1,
              LAMBDA nxt : IF nxt > rx THEN cx
                           ELSE RxToCxFrom(row, rx, cx + 1, nxt))

\* editorRowRxToCx with every byte one column wide.
editorRowRxToCx_OneColumnEach(row, rx) == IF rx < row.size THEN rx ELSE row.size

editorRowRxToCx(row, rx) == RxToCxFrom(row, rx, 0, 0)

\* The inner while of editorUpdateRow left out: a tab becomes one space.
PadToTabStop_OneSpace(render) == render

\* The inner while of editorUpdateRow: spaces up to the next tab stop.
RECURSIVE PadToTabStop(_)
PadToTabStop(render) ==
    IF Len(render) % KILO_TAB_STOP # 0
    THEN With(Append(render, SPACE), PadToTabStop)
    ELSE render

\* The second loop of editorUpdateRow: render built from chars[j..size-1].
RECURSIVE RenderFrom(_, _, _, _)
RenderFrom(chars, size, j, render) ==
    IF j >= size THEN render
    ELSE With(IF chars[j + 1] = TAB THEN PadToTabStop(Append(render, SPACE))
              ELSE Append(render, chars[j + 1]),
              LAMBDA render2 : RenderFrom(chars, size, j + 1, render2))

\* editorUpdateRow without its call of editorUpdateSyntax: hl is left as it is.
editorUpdateRow_KeepsHl(rows, numrows, syntax, at) ==
    With(RenderFrom(rows[at + 1].chars, rows[at + 1].size, 0, <<>>), LAMBDA render :
         [rows EXCEPT ![at + 1].render = render, ![at + 1].rsize = Len(render)])

\* editorUpdateRow on the row at array position `at` (from 0).
editorUpdateRow(rows, numrows, syntax, at) ==
    With(RenderFrom(rows[at + 1].chars, rows[at + 1].size, 0, <<>>), LAMBDA render :
    With([rows EXCEPT ![at + 1].render = render, ![at + 1].rsize = Len(render)],
         LAMBDA rows2 : editorUpdateSyntax(rows2, numrows, syntax, at)))

\* memmove of the rows from `at` one place up with idx++ on each moved row,
\* the new row's fields, editorUpdateRow (E.numrows not yet incremented), then
\* numrows++ and dirty++.
editorInsertRow(e, at, s) ==
    IF at < 0 \/ at > e.numrows THEN e
    ELSE LET fresh == [idx |-> at, size |-> Len(s), chars |-> s, rsize |-> 0,
                       render |-> <<>>, hl |-> <<>>, hl_open_comment |-> 0]
         IN With([k \in 1..(e.numrows + 1) |->
                     IF k <= at THEN e.row[k]
                     ELSE IF k = at + 1 THEN fresh
                     ELSE [e.row[k - 1] EXCEPT !.idx = @ + 1]],
                 LAMBDA moved :
                   [e EXCEPT !.row = editorUpdateRow(moved, e.numrows, e.syntax, at),
                             !.numrows = @ + 1,
                             !.dirty = @ + 1])

\* editorDelRow without the idx-- on the rows that move down.
editorDelRow_KeepsIdx(e, at) ==
    IF at < 0 \/ at > e.numrows THEN e
    ELSE [e EXCEPT !.row = [k \in 1..(e.numrows - 1) |->
                               IF k <= at THEN e.row[k] ELSE e.row[k + 1]],
                   !.numrows = @ - 1,
                   !.dirty = @ + 1]

\* editorDelRow.  The range check lets at = numrows through (a call that
\* would free and move memory past the row vector); the editor's only call
\* site, editorDelChar, passes at = cy < numrows.
editorDelRow(e, at) ==
    IF at < 0 \/ at > e.numrows THEN e
    ELSE [e EXCEPT !.row = [k \in 1..(e.numrows - 1) |->
                               IF k <= at THEN e.row[k]
                               ELSE [e.row[k + 1] EXCEPT !.idx = @ - 1]],
                   !.numrows = @ - 1,
                   !.dirty = @ + 1]

\* editorRowInsertChar without its E.dirty++.
editorRowInsertChar_SameDirty(e, rowat, at0, c) ==
    LET row == e.row[rowat + 1]
        at == IF at0 < 0 \/ at0 > row.size THEN row.size ELSE at0
        chars == SubSeq(row.chars, 1, at) \o <<c>> \o
                 SubSeq(row.chars, at + 1, row.size)
    IN With([e.row EXCEPT ![rowat + 1].chars = chars,
                          ![rowat + 1].size = row.size + 1],
            LAMBDA rows :
              [e EXCEPT !.row = editorUpdateRow(rows, e.numrows, e.syntax, rowat)])

editorRowInsertChar(e, rowat, at0, c) ==
    LET row == e.row[rowat + 1]
        at == IF at0 < 0 \/ at0 > row.size THEN row.size ELSE at0
        chars == SubSeq(row.chars, 1, at) \o <<c>> \o
                 SubSeq(row.chars, at + 1, row.size)
    IN With([e.row EXCEPT ![rowat + 1].chars = chars,
                          ![rowat + 1].size = row.size + 1],
            LAMBDA rows :
              [e EXCEPT !.row = editorUpdateRow(rows, e.numrows, e.syntax, rowat),
                        !.dirty = @ + 1])

editorRowAppendString(e, rowat, s) ==
    LET row == e.row[rowat + 1]
    IN With([e.row EXCEPT ![rowat + 1].chars = row.chars \o s,
                          ![rowat + 1].size = row.size + Len(s)],
            LAMBDA rows :
              [e EXCEPT !.row = editorUpdateRow(rows, e.numrows, e.syntax, rowat),
                        !.dirty = @ + 1])

\* editorRowDelChar without its E.dirty++.
editorRowDelChar_SameDirty(e, rowat, at) ==
    LET row == e.row[rowat + 1]
        chars == SubSeq(row.chars, 1, at) \o SubSeq(row.chars, at + 2, row.size)
    IN IF at < 0 \/ at >= row.size THEN e
       ELSE With([e.row EXCEPT ![rowat + 1].chars = chars,
                               ![rowat + 1].size = row.size - 1],
                 LAMBDA rows :
                   [e EXCEPT !.row = editorUpdateRow(rows, e.numrows, e.syntax, rowat)])

editorRowDelChar(e, rowat, at) ==
    LET row == e.row[rowat + 1]
        chars == SubSeq(row.chars, 1, at) \o SubSeq(row.chars, at + 2, row.size)
    IN IF at < 0 \/ at >= row.size THEN e
       ELSE With([e.row EXCEPT ![rowat + 1].chars = chars,
                               ![rowat + 1].size = row.size - 1],
                 LAMBDA rows :
                   [e EXCEPT !.row = editorUpdateRow(rows, e.numrows, e.syntax, rowat),
                             !.dirty = @ + 1])

(***************************************************************************)
(* Editor operations                                                       *)
(***************************************************************************)
editorInsertChar(e, c) ==
    With(IF e.cy = e.numrows THEN editorInsertRow(e, e.numrows, <<>>) ELSE e,
         LAMBDA e1 :
    With(editorRowInsertChar(e1, e1.cy, e1.cx, c),
         LAMBDA e2 : [e2 EXCEPT !.cx = @ + 1]))

\* editorInsertNewline without lines 588-590: row cy keeps its tail.
editorInsertNewline_KeepsTail(e) ==
    IF e.cx = 0
    THEN With(editorInsertRow(e, e.cy, <<>>),
              LAMBDA e2 : [e2 EXCEPT !.cy = @ + 1, !.cx = 0])
    ELSE LET row == e.row[e.cy + 1]
         IN With(editorInsertRow(e, e.cy + 1,
                                 SubSeq(row.chars, e.cx + 1, row.size)),
                 LAMBDA e1 : [e1 EXCEPT !.cy = @ + 1, !.cx = 0])

editorInsertNewline(e) ==
    IF e.cx = 0
    THEN With(editorInsertRow(e, e.cy, <<>>),
              LAMBDA e2 : [e2 EXCEPT !.cy = @ + 1, !.cx = 0])
    ELSE LET row == e.row[e.cy + 1]
         IN With(editorInsertRow(e, e.cy + 1,
                                 SubSeq(row.chars, e.cx + 1, row.size)),
                 LAMBDA e1 :
            With([e1.row EXCEPT ![e.cy + 1].size = e.cx,
                                ![e.cy + 1].chars = SubSeq(@, 1, e.cx)],
                 LAMBDA cut :
                   [e1 EXCEPT !.row = editorUpdateRow(cut, e1.numrows, e1.syntax,
                                                      e.cy),
                              !.cy = @ + 1, !.cx = 0]))

\* editorDelChar without line 606: the join leaves cx at 0.
editorDelChar_JoinKeepsCx(e) ==
    IF e.cy = e.numrows THEN e
    ELSE IF e.cx = 0 /\ e.cy = 0 THEN e
    ELSE IF e.cx > 0
    THEN With(editorRowDelChar(e, e.cy, e.cx - 1),
              LAMBDA e1 : [e1 EXCEPT !.cx = @ - 1])
    ELSE With(editorRowAppendString(e, e.cy - 1, e.row[e.cy + 1].chars),
              LAMBDA e2 :
         With(editorDelRow(e2, e2.cy),
              LAMBDA e3 : [e3 EXCEPT !.cy = @ - 1]))

\* editorDelChar without line 608: the join leaves cy on the row it removed.
editorDelChar_JoinKeepsCy(e) ==
    IF e.cy = e.numrows THEN e
    ELSE IF e.cx = 0 /\ e.cy = 0 THEN e
    ELSE IF e.cx > 0
    THEN With(editorRowDelChar(e, e.cy, e.cx - 1),
              LAMBDA e1 : [e1 EXCEPT !.cx = @ - 1])
    ELSE With([e EXCEPT !.cx = e.row[e.cy].size], LAMBDA e1 :
         With(editorRowAppendString(e1, e.cy - 1, e.row[e.cy + 1].chars),
              LAMBDA e2 : editorDelRow(e2, e2.cy)))

editorDelChar(e) ==
    IF e.cy = e.numrows THEN e
    ELSE IF e.cx = 0 /\ e.cy = 0 THEN e
    ELSE IF e.cx > 0
    THEN With(editorRowDelChar(e, e.cy, e.cx - 1),
              LAMBDA e1 : [e1 EXCEPT !.cx = @ - 1])
    ELSE With([e EXCEPT !.cx = e.row[e.cy].size], LAMBDA e1 :
         With(editorRowAppendString(e1, e.cy - 1, e.row[e.cy + 1].chars),
              LAMBDA e2 :
         With(editorDelRow(e2, e2.cy),
              LAMBDA e3 : [e3 EXCEPT !.cy = @ - 1])))

(***************************************************************************)
(* File i/o                                                                *)
(***************************************************************************)
\* editorRowsToString: every row's chars followed by '\n'.
RECURSIVE RowsToStringFrom(_, _, _, _)
RowsToStringFrom(rows, numrows, j, buf) ==
    IF j >= numrows THEN buf
    ELSE With(buf \o SubSeq(rows[j + 1].chars, 1, rows[j + 1].size) \o <<LF>>,
              LAMBDA buf2 : RowsToStringFrom(rows, numrows, j + 1, buf2))

\* editorRowsToString with '\n' between the rows and none after the last.
editorRowsToString_Joined(e) ==
    With(RowsToStringFrom(e.row, e.numrows, 0, <<>>),
         LAMBDA b : SubSeq(b, 1, Len(b) - 1))

editorRowsToString(e) == RowsToStringFrom(e.row, e.numrows, 0, <<>>)

\* getline(): the length of the next line of `bytes` (up to and including the
\* first '\n', or all that is left).
LineLen(bytes) ==
    IF \E k \in 1..Len(bytes) : bytes[k] = LF
    THEN CHOOSE k \in 1..Len(bytes) :
            bytes[k] = LF /\ \A m \in 1..(k - 1) : bytes[m] # LF
    ELSE Len(bytes)

\* The inner while of editorOpen: the line without its trailing '\n' and '\r'.
RECURSIVE StripEol(_)
StripEol(line) ==
    IF Len(line) > 0 /\ line[Len(line)] \in {LF, CR}
    THEN With(SubSeq(line, 1, Len(line) - 1), StripEol)
    ELSE line

\* The getline loop of editorOpen over what is left of the file.
RECURSIVE ReadLines(_, _)
ReadLines(e, bytes) ==
    IF Len(bytes) = 0 THEN e
    ELSE With(LineLen(bytes), LAMBDA n :
         With(editorInsertRow(e, e.numrows, StripEol(SubSeq(bytes, 1, n))),
              LAMBDA e2 :
         With(SubSeq(bytes, n + 1, Len(bytes)),
              LAMBDA rest : ReadLines(e2, rest))))

\* editorOpen when fopen succeeds, on a file holding `bytes`.
editorOpen(e, filename, bytes) ==
    With(editorSelectSyntaxHighlight([e EXCEPT !.filename = filename]),
         LAMBDA e1 : [ReadLines(e1, bytes) EXCEPT !.dirty = 0])

\* editorSetStatusMessage: the format and its arguments.
Msg(fmt, args) == [fmt |-> fmt, args |-> args]

\* time(NULL), in seconds.
VARIABLES clock

editorSetStatusMessage(e, fmt, args) ==
    [e EXCEPT !.statusmsg = Msg(fmt, args), !.statusmsg_time = clock]

\* ftruncate(fd, len) on a file holding `bytes`: cut, or padded with NUL.
Truncated(bytes, len) ==
    [k \in 1..len |-> IF k <= Len(bytes) THEN bytes[k] ELSE NUL]

\* write(fd, buf, n) at offset 0 of a file holding `bytes`.
Written(bytes, buf, n) ==
    [k \in 1..(IF n > Len(bytes) THEN n ELSE Len(bytes)) |->
        IF k <= n THEN buf[k] ELSE bytes[k]]

(***************************************************************************)
(* Output                                                                  *)
(***************************************************************************)
\* editorScroll without its first test, if (E.cy < E.rowoff) E.rowoff = E.cy.
editorScroll_NoScrollUp(e) ==
    With(IF e.cy < e.numrows THEN editorRowCxToRx(e.row[e.cy + 1], e.cx) ELSE 0,
         LAMBDA rx :
           LET ro2 == IF e.cy >= e.rowoff + e.screenrows
                      THEN e.cy - e.screenrows + 1 ELSE e.rowoff
               co1 == IF rx < e.coloff THEN rx ELSE e.coloff
               co2 == IF rx >= co1 + e.screencols
                      THEN rx - e.screencols + 1 ELSE co1
           IN [e EXCEPT !.rx = rx, !.rowoff = ro2, !.coloff = co2])

editorScroll(e) ==
    With(IF e.cy < e.numrows THEN editorRowCxToRx(e.row[e.cy + 1], e.cx) ELSE 0,
         LAMBDA rx :
           LET ro1 == IF e.cy < e.rowoff THEN e.cy ELSE e.rowoff
               ro2 == IF e.cy >= ro1 + e.screenrows
                      THEN e.cy - e.screenrows + 1 ELSE ro1
               co1 == IF rx < e.coloff THEN rx ELSE e.coloff
               co2 == IF rx >= co1 + e.screencols
                      THEN rx - e.screencols + 1 ELSE co1
           IN [e EXCEPT !.rx = rx, !.rowoff = ro2, !.coloff = co2])

\* editorRefreshScreen changes the editor's state through editorScroll only.
editorRefreshScreen(e) == With(e, editorScroll)

\* editorDrawMessageBar at time t: the message the bar shows (the code cuts
\* its text to screencols), or the empty message when the bar is left blank.
\* Of the formats the editor uses only "" has length 0.
editorDrawMessageBar(e, t) ==
    IF e.statusmsg.fmt # "" /\ t - e.statusmsg_time < 5
    THEN e.statusmsg ELSE Msg("", <<>>)

\* The buffer editorRefreshScreen builds at time t, from hiding the cursor to
\* showing it again.
Frame(e, t) == [esc |-> "ESC[?25l .. ESC[?25h", bar |-> editorDrawMessageBar(e, t)]

\* write(STDOUT_FILENO, ..) after the writes in `log`.
TtyWrite(log, bytes) == Append(log, bytes)

\* The two writes of die() and of Ctrl-Q's exit: clear the screen, home.
ClearScreen(log) ==
    TtyWrite(TtyWrite(log, [esc |-> "ESC[2J", bar |-> Msg("", <<>>)]),
             [esc |-> "ESC[H", bar |-> Msg("", <<>>)])

(***************************************************************************)
(* Input                                                                   *)
(***************************************************************************)
\* editorMoveCursor without the snap of cx to the row's length at its end.
editorMoveCursor_NoSnap(e, key) ==
    LET hasrow == e.cy < e.numrows
        size == e.row[e.cy + 1].size
    IN CASE key = ARROW_LEFT ->
              IF e.cx # 0 THEN [e EXCEPT !.cx = @ - 1]
              ELSE IF e.cy > 0
                   THEN [e EXCEPT !.cy = @ - 1, !.cx = e.row[e.cy].size]
                   ELSE e
         [] key = ARROW_RIGHT ->
              IF hasrow /\ e.cx < size THEN [e EXCEPT !.cx = @ + 1]
              ELSE IF hasrow /\ e.cx = size
                   THEN [e EXCEPT !.cy = @ + 1, !.cx = 0]
                   ELSE e
         [] key = ARROW_UP ->
              IF e.cy # 0 THEN [e EXCEPT !.cy = @ - 1] ELSE e
         [] key = ARROW_DOWN ->
              IF e.cy < e.numrows THEN [e EXCEPT !.cy = @ + 1] ELSE e
         [] OTHER -> e

editorMoveCursor(e, key) ==
    LET hasrow == e.cy < e.numrows
        size == e.row[e.cy + 1].size
    IN With(CASE key = ARROW_LEFT ->
                   IF e.cx # 0 THEN [e EXCEPT !.cx = @ - 1]
                   ELSE IF e.cy > 0
                        THEN [e EXCEPT !.cy = @ - 1, !.cx = e.row[e.cy].size]
                        ELSE e
              [] key = ARROW_RIGHT ->
                   IF hasrow /\ e.cx < size THEN [e EXCEPT !.cx = @ + 1]
                   ELSE IF hasrow /\ e.cx = size
                        THEN [e EXCEPT !.cy = @ + 1, !.cx = 0]
                        ELSE e
              [] key = ARROW_UP ->
                   IF e.cy # 0 THEN [e EXCEPT !.cy = @ - 1] ELSE e
              [] key = ARROW_DOWN ->
                   IF e.cy < e.numrows THEN [e EXCEPT !.cy = @ + 1] ELSE e
              [] OTHER -> e,
            LAMBDA e1 :
              LET rowlen == IF e1.cy >= e1.numrows THEN 0
                            ELSE e1.row[e1.cy + 1].size
              IN IF e1.cx > rowlen THEN [e1 EXCEPT !.cx = rowlen] ELSE e1)

\* while (times--) editorMoveCursor(key)
RECURSIVE MoveTimes(_, _, _)
MoveTimes(e, key, times) ==
    IF times = 0 THEN e
    ELSE With(editorMoveCursor(e, key),
              LAMBDA e1 : MoveTimes(e1, key, times - 1))

\* The PAGE_DOWN case without line 1130, if (E.cy > E.numrows) E.cy = E.numrows.
PageMove_NoClamp(e, c) ==
    With(IF c = PAGE_UP THEN [e EXCEPT !.cy = e.rowoff]
         ELSE [e EXCEPT !.cy = e.rowoff + e.screenrows - 1],
         LAMBDA e1 : MoveTimes(e1, IF c = PAGE_UP THEN ARROW_UP ELSE ARROW_DOWN,
                               e.screenrows))

\* The calls of editorInsertRow and editorDelRow that editorProcessKeypress
\* makes for the key c in the state e, each with its argument and with
\* E.numrows at the time of the call: editorInsertNewline (lines 583, 586),
\* editorDelChar (line 607, after the move of DEL_KEY and after
\* editorRowAppendString, which leave numrows alone), editorInsertChar (575).
RowCalls(e, c) ==
    IF c = CR
    THEN {[fn |-> "editorInsertRow", at |-> IF e.cx = 0 THEN e.cy ELSE e.cy + 1,
           numrows |-> e.numrows]}
    ELSE IF c \in {BACKSPACE, CTRL_H, DEL_KEY}
    THEN With(IF c = DEL_KEY THEN editorMoveCursor(e, ARROW_RIGHT) ELSE e,
              LAMBDA e1 :
                IF e1.cy = e1.numrows \/ (e1.cx = 0 /\ e1.cy = 0) \/ e1.cx > 0
                THEN {}
                ELSE {[fn |-> "editorDelRow", at |-> e1.cy, numrows |-> e1.numrows]})
    ELSE IF c \in {HOME_KEY, END_KEY, PAGE_UP, PAGE_DOWN, ARROW_UP, ARROW_DOWN,
                   ARROW_LEFT, ARROW_RIGHT, CTRL_L, ESC, CTRL_Q, CTRL_S, CTRL_F}
    THEN {}
    ELSE IF e.cy = e.numrows
    THEN {[fn |-> "editorInsertRow", at |-> e.numrows, numrows |-> e.numrows]}
    ELSE {}

\* The PAGE_UP / PAGE_DOWN case of editorProcessKeypress.
PageMove(e, c) ==
    LET down == e.rowoff + e.screenrows - 1
    IN With(IF c = PAGE_UP THEN [e EXCEPT !.cy = e.rowoff]
            ELSE [e EXCEPT !.cy = IF down > e.numrows THEN e.numrows ELSE down],
            LAMBDA e1 : MoveTimes(e1, IF c = PAGE_UP THEN ARROW_UP ELSE ARROW_DOWN,
                                  e.screenrows))

(***************************************************************************)
(* Find                                                                    *)
(***************************************************************************)
StrLen(s) == Len(CStr(s))

\* The for loop of editorFindCallback without the wrap at either end: the
\* walk stops at the first and at the last row.
RECURSIVE FindLoop_NoWrap(_, _, _, _, _)
FindLoop_NoWrap(e, query, current, direction, i) ==
    IF i >= e.numrows \/ current + direction \notin 0..(e.numrows - 1)
    THEN [found |-> FALSE, current |-> current, match |-> -1]
    ELSE With(StrStr(e.row[current + direction + 1].render, query), LAMBDA match :
              IF match # -1
              THEN [found |-> TRUE, current |-> current + direction, match |-> match]
              ELSE FindLoop_NoWrap(e, query, current + direction, direction, i + 1))

\* The for loop of editorFindCallback from its i-th iteration: the first row
\* that holds the query, walking from `current` in `direction` with wrap.
RECURSIVE FindLoop(_, _, _, _, _)
FindLoop(e, query, current, direction, i) ==
    IF i >= e.numrows THEN [found |-> FALSE, current |-> current, match |-> -1]
    ELSE LET c1 == current + direction
             c2 == IF c1 = -1 THEN e.numrows - 1
                   ELSE IF c1 = e.numrows THEN 0 ELSE c1
         IN With(StrStr(e.row[c2 + 1].render, query), LAMBDA match :
                 IF match # -1
                 THEN [found |-> TRUE, current |-> c2, match |-> match]
                 ELSE FindLoop(e, query, c2, direction, i + 1))

\* editorFindCallback with the memset of line 755 on row->render.
editorFindCallback_MarksRender(e, st, query, key, junk) ==
    LET line == st.saved_hl_line
        st1 == [st EXCEPT !.saved_hl = NULL]
        dir1 == IF key \in {ARROW_RIGHT, ARROW_DOWN} THEN 1
                ELSE IF key \in {ARROW_LEFT, ARROW_UP} THEN -1
                ELSE 1
        last1 == IF key \in {ARROW_RIGHT, ARROW_DOWN, ARROW_LEFT, ARROW_UP}
                 THEN st.last_match ELSE -1
        dir2 == IF last1 = -1 THEN 1 ELSE dir1
    IN With(IF st.saved_hl # NULL
            THEN [e EXCEPT !.row[line + 1].hl =
                     [k \in 1..e.row[line + 1].rsize |-> st.saved_hl[1][k]]]
            ELSE e,
            LAMBDA e1 :
       IF key \in {CR, ESC}
       THEN [e |-> e1, st |-> [st1 EXCEPT !.last_match = -1, !.direction = 1]]
       ELSE With(FindLoop(e1, query, last1, dir2, 0), LAMBDA hit :
            IF ~hit.found
            THEN [e |-> e1,
                  st |-> [st1 EXCEPT !.last_match = last1, !.direction = dir2]]
            ELSE LET row == e1.row[hit.current + 1]
                     copy == [k \in 1..row.rsize |->
                                 IF k <= row.size THEN row.hl[k] ELSE junk]
                 IN [e |-> [e1 EXCEPT
                              !.cy = hit.current,
                              !.cx = editorRowRxToCx(row, hit.match),
                              !.rowoff = e1.numrows,
                              !.row[hit.current + 1].render =
                                  MemSet(row.render, hit.match, StrLen(query),
                                         HL_MATCH)],
                     st |-> [last_match |-> hit.current, direction |-> dir2,
                             saved_hl_line |-> hit.current,
                             saved_hl |-> <<copy>>]]))

\* editorFindCallback on the editor e and its statics st.  saved_hl is NULL or
\* <<copy>>.  The copy is malloc(rsize) filled by memcpy of row->size bytes:
\* its bytes from size on are uninitialized, and read as `junk`.
editorFindCallback(e, st, query, key, junk) ==
    LET line == st.saved_hl_line
        st1 == [st EXCEPT !.saved_hl = NULL]
        dir1 == IF key \in {ARROW_RIGHT, ARROW_DOWN} THEN 1
                ELSE IF key \in {ARROW_LEFT, ARROW_UP} THEN -1
                ELSE 1
        last1 == IF key \in {ARROW_RIGHT, ARROW_DOWN, ARROW_LEFT, ARROW_UP}
                 THEN st.last_match ELSE -1
        dir2 == IF last1 = -1 THEN 1 ELSE dir1
    IN With(IF st.saved_hl # NULL
            THEN [e EXCEPT !.row[line + 1].hl =
                     [k \in 1..e.row[line + 1].rsize |-> st.saved_hl[1][k]]]
            ELSE e,
            LAMBDA e1 :
       IF key \in {CR, ESC}
       THEN [e |-> e1, st |-> [st1 EXCEPT !.last_match = -1, !.direction = 1]]
       ELSE With(FindLoop(e1, query, last1, dir2, 0), LAMBDA hit :
            IF ~hit.found
            THEN [e |-> e1,
                  st |-> [st1 EXCEPT !.last_match = last1, !.direction = dir2]]
            ELSE LET row == e1.row[hit.current + 1]
                     copy == [k \in 1..row.rsize |->
                                 IF k <= row.size THEN row.hl[k] ELSE junk]
                 IN [e |-> [e1 EXCEPT
                              !.cy = hit.current,
                              !.cx = editorRowRxToCx(row, hit.match),
                              !.rowoff = e1.numrows,
                              !.row[hit.current + 1].hl =
                                  MemSet(row.hl, hit.match, StrLen(query),
                                         HL_MATCH)],
                     st |-> [last_match |-> hit.current, direction |-> dir2,
                             saved_hl_line |-> hit.current,
                             saved_hl |-> <<copy>>]]))

(***************************************************************************)
(* editorReadKey                                                           *)
(***************************************************************************)
\* `char c` converted to the int that is returned: a byte above 127 is
\* negative where char is signed.
CharToInt(b, char_signed) == IF char_signed /\ b >= 128 THEN b - 256 ELSE b

\* editorReadKey with the digit case returning without the read of seq[2].
editorReadKey_NoTilde(in, char_signed) ==
    LET n == Len(in)
    IN IF in[1] # ESC THEN CharToInt(in[1], char_signed)
       ELSE IF n < 2 THEN ESC
       ELSE IF n < 3 THEN ESC
       ELSE IF in[2] = 91
       THEN IF in[3] >= 48 /\ in[3] <= 57
            THEN CASE in[3] = 49 -> HOME_KEY
                   [] in[3] = 51 -> DEL_KEY
                   [] in[3] = 52 -> END_KEY
                   [] in[3] = 53 -> PAGE_UP
                   [] in[3] = 54 -> PAGE_DOWN
                   [] in[3] = 55 -> HOME_KEY
                   [] in[3] = 56 -> END_KEY
                   [] OTHER -> ESC
            ELSE CASE in[3] = 65 -> ARROW_UP
                   [] in[3] = 66 -> ARROW_DOWN
                   [] in[3] = 67 -> ARROW_RIGHT
                   [] in[3] = 68 -> ARROW_LEFT
                   [] in[3] = 72 -> HOME_KEY
                   [] in[3] = 70 -> END_KEY
                   [] OTHER -> ESC
       ELSE IF in[2] = 79
       THEN CASE in[3] = 72 -> HOME_KEY
              [] in[3] = 70 -> END_KEY
              [] OTHER -> ESC
       ELSE ESC

\* editorReadKey from its first byte on: `in` holds the bytes that the reads
\* deliver in turn, and a read past its end times out.
editorReadKey(in, char_signed) ==
    LET n == Len(in)
    IN IF in[1] # ESC THEN CharToInt(in[1], char_signed)
       ELSE IF n < 2 THEN ESC
       ELSE IF n < 3 THEN ESC
       ELSE IF in[2] = 91
       THEN IF in[3] >= 48 /\ in[3] <= 57
            THEN IF n < 4 THEN ESC
                 ELSE IF in[4] = 126
                 THEN CASE in[3] = 49 -> HOME_KEY
                        [] in[3] = 51 -> DEL_KEY
                        [] in[3] = 52 -> END_KEY
                        [] in[3] = 53 -> PAGE_UP
                        [] in[3] = 54 -> PAGE_DOWN
                        [] in[3] = 55 -> HOME_KEY
                        [] in[3] = 56 -> END_KEY
                        [] OTHER -> ESC
                 ELSE ESC
            ELSE CASE in[3] = 65 -> ARROW_UP
                   [] in[3] = 66 -> ARROW_DOWN
                   [] in[3] = 67 -> ARROW_RIGHT
                   [] in[3] = 68 -> ARROW_LEFT
                   [] in[3] = 72 -> HOME_KEY
                   [] in[3] = 70 -> END_KEY
                   [] OTHER -> ESC
       ELSE IF in[2] = 79
       THEN CASE in[3] = 72 -> HOME_KEY
              [] in[3] = 70 -> END_KEY
              [] OTHER -> ESC
       ELSE ESC

(***************************************************************************)
(* Bounds of the model and the environment's inputs                        *)
(***************************************************************************)
MaxRows == 3        \* rows the buffer may hold
MaxBytes == 2       \* bytes the buffer's rows may hold together
MaxCommentBytes == 4    \* the same, where comments are typed
MaxDirty == 2       \* edits are taken while dirty is below this
MaxBuf == 1         \* bytes typed into a prompt
WindowRows == 4     \* terminal height (screenrows is two less)
WindowCols == 2     \* terminal width
MaxClock == 6       \* seconds the clock runs for

\* Bytes the user types into the text, into the save-as prompt, into the
\* search prompt.
TypedBytes == {47, 42}      \* '/', '*'
SaveAsBytes == {46, 99}   \* '.', 'c'
FindBytes == {47, 97}     \* '/', 'a'

\* The file named on the command line, if any, and what it holds at startup.
ArgName == <<120, 46, 99>>   \* "x.c"
StartFiles == { <<>>, <<47, 47, 42, LF, LF>> }   \* "", "//*\n\n"

\* The same for text with tabs, for plain text, and for every file of up to
\* MaxFileLen bytes.
TabBytes == {TAB, 47}
TabFiles == { <<>>, <<47, TAB, 47, LF>> }
PlainBytes == {97}
PlainFiles == { <<>>, <<97, LF>> }
\* Files with and without a final LF, and with CR LF.
DirtyFiles == { <<>>, <<97, LF>>, <<97>>, <<97, CR, LF>> }
\* Files with rows that hold "a" and rows that do not.
SearchFiles == { <<97, LF, LF, 97, LF>>, <<LF, TAB, 97, LF, 97>>, <<LF>> }
FileBytes == {LF, CR, TAB, 97}
MaxFileLen == 3
SmallFiles == UNION { [1..n -> FileBytes] : n \in 0..MaxFileLen }

\* Bytes the terminal sends: ESC, [, O, ~, the digits, the final letters of
\* the sequences, and plain bytes below and above 128.
KeyBytes == {ESC, 91, 79, 126} \cup 48..57 \cup {65, 66, 67, 68, 70, 72}
                \cup {97, BACKSPACE, 195, 232}

\* Values an uninitialized highlight byte is read as.
JunkBytes == {HL_NORMAL, HL_MATCH}

(***************************************************************************)
(* State                                                                   *)
(***************************************************************************)
VARIABLES
    E,              \* struct editorConfig E
    quit_times,     \* editorProcessKeypress's static
    last_match,     \* editorFindCallback's statics
    direction,
    saved_hl_line,
    saved_hl,
    saved_cursor,   \* editorFind's saved_cx, saved_cy, saved_coloff, saved_rowoff
    buf,            \* editorPrompt's buf
    pc,             \* where the program waits: "start", then in editorReadKey
                    \* of the main loop ("main") or of a prompt ("saveas",
                    \* "find"), or "exit"
    exit_code,      \* the status passed to exit() by the path that ends the
                    \* program, -1 while running
    disk,           \* the files that exist: name -> bytes
    save_fd_open,   \* 1 when the last editorSave returned with its fd open
    tty,            \* the writes to the terminal since editorReadKey last
                    \* returned (since the start, before the first key)
    persisted,      \* the bytes last loaded from or written to E.filename
    hl_before,      \* every row's hl when editorFind was entered
    term,           \* the terminal and the process: attrs "og" or "raw", raw = 1
                    \* once raw mode was set, atexit = 1 once disableRawMode
                    \* is registered, status the process ended with (-1 before)
    readkey,        \* the bytes the last editorReadKey consumed and its value
    scan,           \* a call of editorUpdateSyntax under way: the row's render
                    \* and the locals of its while loop
    qrun            \* Ctrl-Q presses dispatched in a row

vars == <<E, quit_times, last_match, direction, saved_hl_line, saved_hl,
          saved_cursor, buf, pc, exit_code, disk, save_fd_open, clock, tty, persisted,
          hl_before, term, readkey, scan, qrun>>

\* initEditor, with the statics' initial values; the terminal reports
\* WindowRows x WindowCols.
initEditor ==
    [cx |-> 0, cy |-> 0, rx |-> 0, rowoff |-> 0, coloff |-> 0,
     screenrows |-> WindowRows - 2, screencols |-> WindowCols,
     numrows |-> 0, row |-> <<>>, dirty |-> 0, filename |-> NULL,
     statusmsg |-> Msg("", <<>>), statusmsg_time |-> 0, syntax |-> NO_SYNTAX]

InitBut(files) ==
    /\ E = initEditor
    /\ quit_times = KILO_QUIT_TIMES
    /\ last_match = -1
    /\ direction = 1
    /\ saved_hl_line = 0
    /\ saved_hl = NULL
    /\ saved_cursor = <<0, 0, 0, 0>>
    /\ buf = <<>>
    /\ pc = "start"
    /\ exit_code = -1
    /\ \E f \in files : disk = (ArgName :> f)
    /\ save_fd_open = 0
    /\ clock = 0
    /\ tty = <<>>
    /\ persisted = <<>>
    /\ hl_before = <<>>
    /\ term = [attrs |-> "og", raw |-> 0, atexit |-> 0, status |-> -1]
    /\ readkey = [bytes |-> <<>>, c |-> 0]
    /\ qrun = 0

\* No call of editorUpdateSyntax under way.
InitWith(files) ==
    /\ InitBut(files)
    /\ scan = [render |-> <<>>, st |-> ScanLocals(<<>>, 0)]

Init == InitWith(StartFiles)

TotalBytes(e) ==
    LET RECURSIVE Sum(_)
        Sum(j) == IF j = 0 THEN 0 ELSE e.row[j].size + Sum(j - 1)
    IN Sum(e.numrows)

HELP == "HELP: Ctrl-S = save | Ctrl-Q = quit | Ctrl-F = find"
WARNING == "WARNING!!! File has unsaved changes. Press Ctrl-Q %d more times to quit."
SAVE_AS == "Save as: %s (ESC to cancel)"
SEARCH == "Search: %s (Use ESC/Arrows/Enter)"
WRITTEN == "%d bytes written to disk"
CANT_SAVE == "Can't save! I/O error: %s"
SAVE_ABORTED == "Save aborted"

\* editorRefreshScreen from the editor state e, after the writes in `log`:
\* the scroll, and the frame in one write.  The clock is read, not advanced.
RepaintAfter(log, e) ==
    /\ E' = editorRefreshScreen(e)
    /\ tty' = TtyWrite(log, Frame(E', clock))
    /\ UNCHANGED <<clock, readkey, scan>>

\* The message bar as the terminal shows it: that of the last write.
MessageBarShown == IF tty = <<>> THEN Msg("", <<>>) ELSE tty[Len(tty)].bar

\* Two editorRefreshScreen calls in a row before the next read.
Repaint_Twice(e) == RepaintAfter(TtyWrite(<<>>, Frame(editorRefreshScreen(e), clock)), e)

\* The one editorRefreshScreen between the key just read and the next read.
Repaint(e) == RepaintAfter(<<>>, e)

\* exit(code) after the writes in `log`, with the terminal and process t.
\* The handler disableRawMode, when registered, calls tcsetattr with
\* og_termios.  When that call fails the handler calls die(): two more writes
\* and exit(1) from inside exit(), which is undefined; the process ends with
\* either status.
ExitFrom(t, code, log) ==
    IF t.atexit = 0
    THEN /\ term' = [t EXCEPT !.status = code]
         /\ tty' = log
    ELSE \/ /\ term' = [t EXCEPT !.attrs = "og", !.status = code]
            /\ tty' = log
         \/ \E st \in {code, 1} :
               /\ term' = [t EXCEPT !.status = st]
               /\ tty' = ClearScreen(log)

(***************************************************************************)
(* main() up to the first editorReadKey                                    *)
(***************************************************************************)
\* main: enableRawMode (tcgetattr, atexit, tcsetattr), initEditor with
\* getWindowSize, then editorOpen of a file argument (die("fopen") when the
\* file does not exist), the help message and the first refresh.  `boot` is
\* the call that fails first, if one does; a failing getWindowSize has
\* written its two queries.
Start ==
    /\ pc = "start"
    /\ \E boot \in {"ok", "tcgetattr", "tcsetattr", "getWindowSize"},
          arg \in {NULL, ArgName, <<120>>} :
          IF boot # "ok" \/ (arg # NULL /\ arg \notin DOMAIN disk)
          THEN /\ pc' = "exit"
               /\ exit_code' = 1
               /\ ExitFrom(
                     IF boot = "tcgetattr" THEN term
                     ELSE IF boot = "tcsetattr" THEN [term EXCEPT !.atexit = 1]
                     ELSE [term EXCEPT !.atexit = 1, !.attrs = "raw", !.raw = 1],
                     1,
                     ClearScreen(
                       IF boot = "getWindowSize"
                       THEN TtyWrite(TtyWrite(tty,
                              [esc |-> "ESC[999C ESC[999B", bar |-> Msg("", <<>>)]),
                              [esc |-> "ESC[6n", bar |-> Msg("", <<>>)])
                       ELSE tty))
               /\ UNCHANGED <<E, persisted, clock, readkey, scan>>
          ELSE /\ pc' = "main"
               /\ exit_code' = exit_code
               /\ term' = [term EXCEPT !.atexit = 1, !.attrs = "raw", !.raw = 1]
               /\ Repaint(editorSetStatusMessage(
                          IF arg = NULL THEN E ELSE editorOpen(E, arg, disk[arg]),
                          HELP, <<>>))
               /\ persisted' = IF arg = NULL THEN persisted ELSE disk[arg]
    /\ UNCHANGED <<quit_times, last_match, direction, saved_hl_line, saved_hl,
                   saved_cursor, buf, disk, save_fd_open, hl_before, qrun>>

(***************************************************************************)
(* editorSave after the file name is known                                 *)
(***************************************************************************)
\* What open/ftruncate/write may do: all succeed, or one of them fails; a
\* failed write has written the first k bytes.
SaveOutcomes(len) ==
    {<<"ok", len>>, <<"open", 0>>, <<"ftruncate", 0>>}
        \cup {<<"write", k>> : k \in {0} \cup 0..(len - 1)}

\* editorSave with E.dirty = 0 ahead of open(): a failed save clears it too.
SaveFile_ClearsFirst(e0, d, p, outcome) ==
    With([e0 EXCEPT !.dirty = 0], LAMBDA e :
    With(editorRowsToString(e), LAMBDA b :
    LET len == Len(b)
        old == IF e.filename \in DOMAIN d THEN d[e.filename] ELSE <<>>
        opened == (e.filename :> old) @@ d
        wrote == (e.filename :> Written(Truncated(old, len), b, outcome[2])) @@ d
    IN CASE outcome[1] = "ok" ->
              [e |-> editorSetStatusMessage([e EXCEPT !.dirty = 0], WRITTEN, <<len>>),
               disk |-> wrote, persisted |-> b, fd_open |-> 0]
         [] outcome[1] = "open" ->
              [e |-> editorSetStatusMessage(e, CANT_SAVE, <<>>),
               disk |-> d, persisted |-> p, fd_open |-> 0]
         [] outcome[1] = "ftruncate" ->
              [e |-> editorSetStatusMessage(e, CANT_SAVE, <<>>),
               disk |-> opened, persisted |-> p, fd_open |-> 1]
         [] outcome[1] = "write" ->
              [e |-> editorSetStatusMessage(e, CANT_SAVE, <<>>),
               disk |-> wrote, persisted |-> p, fd_open |-> 0]))

\* The part of editorSave from editorRowsToString on: the editor, the disk
\* and the persisted bytes after it, and whether the descriptor that open()
\* returned is still open at the return (close is called at lines 694, 700).
SaveFile(e, d, p, outcome) ==
    With(editorRowsToString(e), LAMBDA b :
    LET len == Len(b)
        old == IF e.filename \in DOMAIN d THEN d[e.filename] ELSE <<>>
        opened == (e.filename :> old) @@ d
        wrote == (e.filename :> Written(Truncated(old, len), b, outcome[2])) @@ d
    IN CASE outcome[1] = "ok" ->
              [e |-> editorSetStatusMessage([e EXCEPT !.dirty = 0], WRITTEN, <<len>>),
               disk |-> wrote, persisted |-> b, fd_open |-> 0]
         [] outcome[1] = "open" ->
              [e |-> editorSetStatusMessage(e, CANT_SAVE, <<>>),
               disk |-> d, persisted |-> p, fd_open |-> 0]
         [] outcome[1] = "ftruncate" ->
              [e |-> editorSetStatusMessage(e, CANT_SAVE, <<>>),
               disk |-> opened, persisted |-> p, fd_open |-> 1]
         [] outcome[1] = "write" ->
              [e |-> editorSetStatusMessage(e, CANT_SAVE, <<>>),
               disk |-> wrote, persisted |-> p, fd_open |-> 0])

(***************************************************************************)
(* editorProcessKeypress, one action per case of its switch; each ends with *)
(* quit_times = KILO_QUIT_TIMES and the main loop's editorRefreshScreen.    *)
(***************************************************************************)
Unchanged_find == UNCHANGED <<last_match, direction, saved_hl_line, saved_hl,
                              saved_cursor, buf, hl_before>>

\* Dispatch without line 1155: the quit counter stays where Ctrl-Q left it.
Dispatch_KeepsQuitTimes(e) ==
    /\ Repaint(e)
    /\ qrun' = 0
    /\ Unchanged_find
    /\ UNCHANGED <<quit_times, pc, exit_code, disk, save_fd_open, persisted, term>>

\* A case that only changes E.
Dispatch(e) ==
    /\ Repaint(e)
    /\ quit_times' = KILO_QUIT_TIMES
    /\ qrun' = 0
    /\ Unchanged_find
    /\ UNCHANGED <<pc, exit_code, disk, save_fd_open, persisted, term>>

KeyEnter ==
    /\ pc = "main"
    /\ E.numrows < MaxRows /\ E.dirty < MaxDirty
    /\ Dispatch(editorInsertNewline(E))

\* KeyCtrlQ with quit_times-- ahead of the message: the warnings count 2, 1, 0.
KeyCtrlQ_DecrementFirst ==
    /\ pc = "main"
    /\ qrun' = qrun + 1
    /\ IF E.dirty # 0 /\ quit_times > 0
       THEN /\ Repaint(
                       editorSetStatusMessage(E, WARNING, <<quit_times - 1>>))
            /\ quit_times' = quit_times - 1
            /\ UNCHANGED <<pc, exit_code, term>>
       ELSE /\ pc' = "exit"
            /\ exit_code' = 0
            /\ ExitFrom(term, 0, ClearScreen(<<>>))
            /\ UNCHANGED <<E, quit_times, clock, readkey, scan>>
    /\ Unchanged_find
    /\ UNCHANGED <<disk, save_fd_open, persisted>>

KeyCtrlQ ==
    /\ pc = "main"
    /\ qrun' = qrun + 1
    /\ IF E.dirty # 0 /\ quit_times > 0
       THEN /\ Repaint(
                       editorSetStatusMessage(E, WARNING, <<quit_times>>))
            /\ quit_times' = quit_times - 1
            /\ UNCHANGED <<pc, exit_code, term>>
       ELSE /\ pc' = "exit"
            /\ exit_code' = 0
            /\ ExitFrom(term, 0, ClearScreen(<<>>))
            /\ UNCHANGED <<E, quit_times, clock, readkey, scan>>
    /\ Unchanged_find
    /\ UNCHANGED <<disk, save_fd_open, persisted>>

KeyCtrlS ==
    /\ pc = "main"
    /\ IF E.filename = NULL
       THEN /\ pc' = "saveas"
            /\ buf' = <<>>
            /\ Repaint(editorSetStatusMessage(E, SAVE_AS, <<>>))
            /\ UNCHANGED <<quit_times, disk, save_fd_open, persisted>>
       ELSE \E o \in SaveOutcomes(Len(editorRowsToString(E))) :
            \E r \in {SaveFile(E, disk, persisted, o)} :
               /\ Repaint(r.e)
               /\ disk' = r.disk
               /\ save_fd_open' = r.fd_open
               /\ persisted' = r.persisted
               /\ quit_times' = KILO_QUIT_TIMES
               /\ UNCHANGED <<pc, buf>>
    /\ qrun' = 0
    /\ UNCHANGED <<last_match, direction, saved_hl_line, saved_hl, saved_cursor,
                   exit_code, term, hl_before>>

KeyHome ==
    /\ pc = "main"
    /\ Dispatch([E EXCEPT !.cx = 0])

KeyEnd ==
    /\ pc = "main"
    /\ Dispatch(IF E.cy < E.numrows
                THEN [E EXCEPT !.cx = E.row[E.cy + 1].size] ELSE E)

KeyCtrlF ==
    /\ pc = "main"
    /\ pc' = "find"
    /\ saved_cursor' = <<E.cx, E.cy, E.coloff, E.rowoff>>
    /\ hl_before' = [i \in 1..E.numrows |-> E.row[i].hl]
    /\ buf' = <<>>
    /\ Repaint(editorSetStatusMessage(E, SEARCH, <<>>))
    /\ qrun' = 0
    /\ UNCHANGED <<quit_times, last_match, direction, saved_hl_line, saved_hl,
                   exit_code, term, disk, save_fd_open, persisted>>

KeyDelete ==
    /\ pc = "main"
    /\ E.dirty < MaxDirty
    /\ \E c \in {BACKSPACE, CTRL_H, DEL_KEY} :
          Dispatch(With(IF c = DEL_KEY THEN editorMoveCursor(E, ARROW_RIGHT)
                        ELSE E,
                        editorDelChar))

KeyPage ==
    /\ pc = "main"
    /\ \E c \in {PAGE_UP, PAGE_DOWN} : Dispatch(PageMove(E, c))

KeyArrow ==
    /\ pc = "main"
    /\ \E c \in {ARROW_UP, ARROW_DOWN, ARROW_LEFT, ARROW_RIGHT} :
          Dispatch(editorMoveCursor(E, c))

KeyNoop ==
    /\ pc = "main"
    /\ \E c \in {CTRL_L, ESC} : Dispatch(E)

\* The default case, for a byte of the given set, while the buffer holds
\* fewer than `max` bytes.
KeyCharUpTo(bytes, max) ==
    /\ pc = "main"
    /\ TotalBytes(E) < max /\ E.dirty < MaxDirty
    /\ E.cy = E.numrows => E.numrows < MaxRows
    /\ \E c \in bytes : Dispatch(editorInsertChar(E, c))

KeyChar(bytes) == KeyCharUpTo(bytes, MaxBytes)

(***************************************************************************)
(* editorPrompt: one key read inside the prompt of editorSave or editorFind *)
(***************************************************************************)
PromptKeys ==
    {BACKSPACE, CTRL_H, DEL_KEY, ESC, CR, CTRL_Q,
     ARROW_UP, ARROW_DOWN, ARROW_LEFT, ARROW_RIGHT}

\* One pass of editorPrompt's loop from the key c that editorReadKey returned.
PromptKeyOn(c) ==
    /\ pc \in {"saveas", "find"}
    /\ \E junk \in JunkBytes :
       LET del == c \in {DEL_KEY, CTRL_H, BACKSPACE}
           typed == ~del /\ c \notin {ESC, CR} /\ ~iscntrl(c) /\ c < 128
           buf1 == IF del /\ Len(buf) # 0 THEN SubSeq(buf, 1, Len(buf) - 1)
                   ELSE IF typed THEN Append(buf, c) ELSE buf
           returns == c = ESC \/ (c = CR /\ Len(buf) # 0)
           e1 == IF returns THEN editorSetStatusMessage(E, "", <<>>) ELSE E
           st == [last_match |-> last_match, direction |-> direction,
                  saved_hl_line |-> saved_hl_line, saved_hl |-> saved_hl]
       IN \E cb \in {IF pc = "find" THEN editorFindCallback(e1, st, buf1, c, junk)
                                   ELSE [e |-> e1, st |-> st]} :
          /\ typed => Len(buf) < MaxBuf
          /\ last_match' = cb.st.last_match
          /\ direction' = cb.st.direction
          /\ saved_hl_line' = cb.st.saved_hl_line
          /\ saved_hl' = cb.st.saved_hl
          /\ IF ~returns
             THEN \* the loop goes round: the prompt again, a refresh, a read
                  /\ buf' = buf1
                  /\ Repaint(editorSetStatusMessage(cb.e,
                             IF pc = "find" THEN SEARCH ELSE SAVE_AS, buf1))
                  /\ UNCHANGED <<pc, quit_times, saved_cursor, disk, save_fd_open, persisted,
                                 hl_before>>
             ELSE /\ pc' = "main"
                  /\ buf' = <<>>
                  /\ hl_before' = <<>>
                  /\ quit_times' = KILO_QUIT_TIMES
                  /\ saved_cursor' = <<0, 0, 0, 0>>
                  /\ IF pc = "find"
                     THEN \* editorFind after editorPrompt
                          /\ Repaint(
                                 IF c = CR THEN cb.e
                                 ELSE [cb.e EXCEPT !.cx = saved_cursor[1],
                                                   !.cy = saved_cursor[2],
                                                   !.coloff = saved_cursor[3],
                                                   !.rowoff = saved_cursor[4]])
                          /\ UNCHANGED <<disk, save_fd_open, persisted>>
                     ELSE IF c = ESC
                     THEN \* editorSave: the prompt was cancelled
                          /\ Repaint(
                                     editorSetStatusMessage(cb.e, SAVE_ABORTED, <<>>))
                          /\ UNCHANGED <<disk, save_fd_open, persisted>>
                     ELSE \* editorSave with the name typed
                          \E named \in {editorSelectSyntaxHighlight(
                                           [cb.e EXCEPT !.filename = buf1])} :
                          \E o \in SaveOutcomes(Len(editorRowsToString(named))) :
                          \E r \in {SaveFile(named, disk, persisted, o)} :
                             /\ Repaint(r.e)
                             /\ disk' = r.disk
                             /\ save_fd_open' = r.fd_open
                             /\ persisted' = r.persisted
    /\ UNCHANGED <<exit_code, term, qrun>>

PromptKey ==
    \E c \in PromptKeys \cup (IF pc = "find" THEN FindBytes ELSE SaveAsBytes) :
        PromptKeyOn(c)

(***************************************************************************)
(* editorReadKey while no byte arrives                                     *)
(***************************************************************************)
\* ReadTimeout that returns to the caller's loop, which repaints.
ReadTimeout_Repaints ==
    /\ pc \in {"main", "saveas", "find"}
    /\ clock < MaxClock
    /\ clock' = clock + 1
    /\ tty' = TtyWrite(<<>>, Frame(E, clock'))
    /\ UNCHANGED <<E, quit_times, last_match, direction, saved_hl_line, saved_hl,
                   saved_cursor, buf, pc, exit_code, term, disk, save_fd_open, persisted,
                   hl_before, qrun, readkey, scan>>

\* read() returns 0 after its 100 ms and the while loop of editorReadKey calls
\* it again: one step for the timeouts during which time(NULL) gains a second.
ReadTimeout ==
    /\ pc \in {"main", "saveas", "find"}
    /\ clock < MaxClock
    /\ clock' = clock + 1
    /\ UNCHANGED <<E, quit_times, last_match, direction, saved_hl_line, saved_hl,
                   saved_cursor, buf, pc, exit_code, term, disk, save_fd_open, tty, persisted,
                   hl_before, qrun, readkey, scan>>

\* read() fails with an error other than EAGAIN: die("read").
ReadError ==
    /\ pc \in {"main", "saveas", "find"}
    /\ pc' = "exit"
    /\ exit_code' = 1
    /\ ExitFrom(term, 1, ClearScreen(tty))
    /\ UNCHANGED <<E, quit_times, last_match, direction, saved_hl_line, saved_hl,
                   saved_cursor, buf, disk, save_fd_open, clock, persisted,
                   hl_before, readkey, scan, qrun>>

(***************************************************************************)
(* editorReadKey once bytes arrive                                         *)
(***************************************************************************)
\* The bytes one call of editorReadKey may consume, a sequence that ends
\* before the call has what it reads for standing for a read() that timed
\* out: one byte, ESC and up to two more, ESC [ digit and one more.
KeyInputs ==
    {<<b>> : b \in KeyBytes}
      \cup {<<ESC, b>> : b \in KeyBytes}
      \cup {<<ESC, b, c>> : b \in KeyBytes, c \in KeyBytes}
      \cup {<<ESC, 91, d, c>> : d \in 48..57, c \in KeyBytes}

\* editorReadKey returns with the bytes it consumed and its value.  The key
\* actions above take the decoded key as given.
ReadKey ==
    /\ pc \in {"main", "saveas", "find"}
    /\ \E in \in KeyInputs, char_signed \in BOOLEAN :
          readkey' = [bytes |-> in, c |-> editorReadKey(in, char_signed)]
    /\ UNCHANGED <<E, quit_times, last_match, direction, saved_hl_line, saved_hl,
                   saved_cursor, buf, pc, exit_code, term, disk, save_fd_open, clock,
                   tty, persisted, hl_before, scan, qrun>>

(***************************************************************************)
(* The highlighter's loop, pass by pass                                    *)
(***************************************************************************)
MaxScanLen == 4

\* 'i', 'f', space, '1', '"', '/'
ScanBytes == {105, 102, 32, 49, DQUOTE, 47}

RECURSIVE ScanRenders(_)
ScanRenders(n) ==
    IF n = 0 THEN {<<>>}
    ELSE ScanRenders(n - 1)
           \cup {Append(r, b) : r \in {q \in ScanRenders(n - 1) : Len(q) = n - 1},
                                b \in ScanBytes}

\* editorUpdateSyntax has been called on a row of a C file and is at its loop.
ScanCalls ==
    {[render |-> render, st |-> ScanLocals(render, in_comment)] :
        render \in ScanRenders(MaxScanLen), in_comment \in {0, 1}}

\* One pass through the body of the loop.
ScanPass ==
    /\ scan.st.i < Len(scan.render)
    /\ scan' = [scan EXCEPT !.st = ScanStep(HLDB[1], scan.render, scan.st)]
    /\ UNCHANGED <<E, quit_times, last_match, direction, saved_hl_line, saved_hl,
                   saved_cursor, buf, pc, exit_code, term, disk, save_fd_open, clock,
                   tty, persisted, hl_before, readkey, qrun>>

Next ==
    \/ Start
    \/ ReadError
    \/ ReadTimeout
    \/ ReadKey
    \/ ScanPass
    \/ KeyEnter
    \/ KeyCtrlQ
    \/ KeyCtrlS
    \/ KeyHome
    \/ KeyEnd
    \/ KeyCtrlF
    \/ KeyDelete
    \/ KeyPage
    \/ KeyArrow
    \/ KeyNoop
    \/ KeyChar(TypedBytes \cup TabBytes \cup PlainBytes)
    \/ PromptKey

Spec == Init /\ [][Next]_vars

(***************************************************************************)
(* Restrictions of Spec to some of the keys and some of the inputs.  Every *)
(* behaviour of one of them is a behaviour the program has.                *)
(***************************************************************************)
\* The highlighter on one row.
InitScan ==
    /\ InitBut(PlainFiles)
    /\ scan \in ScanCalls

NextScan == ScanPass

SpecScan == InitScan /\ [][NextScan]_vars

\* Editing and cursor keys on C source.
NextEdit ==
    \/ Start
    \/ KeyEnter
    \/ KeyDelete
    \/ KeyChar(TypedBytes)
    \/ KeyArrow
    \/ KeyHome
    \/ KeyEnd
    \/ KeyPage

SpecEdit == InitWith(StartFiles) /\ [][NextEdit]_vars

\* Typing and deleting comment delimiters, Enter, and the arrows.
NextComment ==
    \/ Start
    \/ KeyEnter
    \/ KeyDelete
    \/ KeyCharUpTo(TypedBytes, MaxCommentBytes)
    \/ KeyArrow

SpecComment == InitWith(StartFiles) /\ [][NextComment]_vars

\* Editing, cursor keys and incremental search on text with tabs.
NextFind ==
    \/ Start
    \/ KeyEnter
    \/ KeyDelete
    \/ KeyChar(TabBytes)
    \/ KeyArrow
    \/ KeyHome
    \/ KeyEnd
    \/ KeyPage
    \/ KeyCtrlF
    \/ PromptKey

SpecFind == InitWith(TabFiles) /\ [][NextFind]_vars

\* Every key that moves the cursor, on text with a tab.
CursorFiles == { <<>>, <<TAB, 97, LF>> }   \* "", "\ta\n"

\* Editing, the cursor keys and search.
NextCursor ==
    \/ Start
    \/ KeyEnter
    \/ KeyDelete
    \/ KeyChar(PlainBytes)
    \/ KeyArrow
    \/ KeyHome
    \/ KeyEnd
    \/ KeyPage
    \/ KeyCtrlF
    \/ PromptKey

SpecCursor == InitWith(CursorFiles) /\ [][NextCursor]_vars

\* Editing and saving, under the name given or under one typed at the prompt.
NextSave ==
    \/ Start
    \/ KeyEnter
    \/ KeyDelete
    \/ KeyChar(PlainBytes)
    \/ KeyCtrlS
    \/ PromptKey

SpecSave == InitWith(PlainFiles) /\ [][NextSave]_vars

\* Opening any small file, moving in it, saving it.
NextFile ==
    \/ Start
    \/ KeyArrow
    \/ KeyCtrlS
    \/ PromptKey

SpecFile == InitWith(SmallFiles) /\ [][NextFile]_vars

\* Moving in a file and searching it.
NextSearch ==
    \/ Start
    \/ KeyArrow
    \/ KeyCtrlF
    \/ PromptKey

SpecSearch == InitWith(SearchFiles) /\ [][NextSearch]_vars

\* Opening any small file and searching it.
NextRows ==
    \/ Start
    \/ KeyCtrlF
    \/ PromptKey

SpecRows == InitWith(SmallFiles) /\ [][NextRows]_vars

\* Editing and quitting.
NextQuit ==
    \/ Start
    \/ KeyEnter
    \/ KeyDelete
    \/ KeyChar(PlainBytes)
    \/ KeyCtrlQ
    \/ KeyNoop

SpecQuit == InitWith(PlainFiles) /\ [][NextQuit]_vars

\* Keys that set a message or leave it, while time passes; with no byte to
\* read, read() keeps timing out.
NextIdle ==
    \/ Start
    \/ KeyChar(PlainBytes)
    \/ KeyArrow
    \/ KeyNoop
    \/ KeyCtrlQ
    \/ ReadTimeout

SpecIdle == InitWith(PlainFiles) /\ [][NextIdle]_vars /\ WF_vars(ReadTimeout)

\* Editing, then leaving by Ctrl-Q or by a fatal error.
NextExit ==
    \/ Start
    \/ KeyEnter
    \/ KeyDelete
    \/ KeyChar(PlainBytes)
    \/ KeyCtrlQ
    \/ KeyNoop
    \/ ReadError

SpecExit == InitWith(PlainFiles) /\ [][NextExit]_vars

\* Decoding the bytes of the terminal.
NextKeys ==
    \/ Start
    \/ ReadKey

SpecKeys == InitWith(PlainFiles) /\ [][NextKeys]_vars

\* Every kind of key between presses of Ctrl-Q, the prompts included.
NextReset ==
    \/ Start
    \/ KeyChar(PlainBytes)
    \/ KeyNoop
    \/ KeyCtrlQ
    \/ KeyCtrlS
    \/ KeyCtrlF
    \/ PromptKey

SpecReset == InitWith(PlainFiles) /\ [][NextReset]_vars

\* Editing and saving files whose lines end in LF, in CR LF or in nothing.
NextDirty ==
    \/ Start
    \/ KeyEnter
    \/ KeyDelete
    \/ KeyChar(PlainBytes)
    \/ KeyCtrlS

SpecDirty == InitWith(DirtyFiles) /\ [][NextDirty]_vars

C2_DirtySemantics ==
    [][ /\ (pc = "start" /\ E'.filename # NULL /\ Start) => E'.dirty = 0
        /\ ( /\ pc = "main" /\ editorRowsToString(E') # editorRowsToString(E)
             /\ KeyEnter \/ KeyDelete \/ KeyChar(PlainBytes) )
              => E'.dirty > E.dirty
        /\ (E'.statusmsg.fmt = WRITTEN /\ (KeyCtrlS \/ PromptKey))
              => E'.dirty = 0
        /\ E.dirty >= 0 /\ E'.dirty >= 0 ]_vars

\* An opened file was edited and then saved: "a" LF became "a" LF LF and the
\* counter, raised by the edit, is back at 0.
C2_Witness ==
    /\ pc = "main" /\ E.filename = ArgName
    /\ E.dirty = 0 /\ E.statusmsg = Msg(WRITTEN, <<3>>)
    /\ persisted = <<97, LF, LF>> /\ disk[ArgName] = persisted

\* C3 as stated, the half its example is about: whenever the serialized
\* buffer equals the bytes last loaded from or saved to the file (as after a
\* byte is inserted and removed with Backspace), dirty is 0.
C3_CleanWhenEqual ==
    pc = "main" /\ E.filename # NULL /\ editorRowsToString(E) = persisted
        => E.dirty = 0

\* C3 as the code has it: dirty counts the modifications since the last load
\* or save, so dirty = 0 implies that the rows of the buffer are the lines of
\* the bytes last loaded or saved, each without its trailing CR and LF bytes;
\* the converse does not hold.
C3_EqualWhenClean ==
    pc = "main" /\ E.dirty = 0
        => editorRowsToString(E) =
              editorRowsToString(ReadLines(initEditor, persisted))

\* A file holding "a" CR LF was opened: the counter is 0, the buffer
\* serializes to "a" LF, and the row is the file's line without CR LF.
C3_Witness ==
    /\ pc = "main" /\ E.dirty = 0
    /\ persisted = <<97, CR, LF>>
    /\ editorRowsToString(E) = <<97, LF>>

(***************************************************************************)
(* Open and save                                                           *)
(***************************************************************************)
\* C4 as stated: for a file without CR bytes, a save that succeeds right
\* after the file was opened leaves the file's bytes as they were and
\* reports their number as written.
C4_SaveKeepsLfFile ==
    [][ ( /\ pc = "main" /\ E.filename # NULL /\ E.statusmsg.fmt = HELP
          /\ \A k \in 1..Len(disk[E.filename]) : disk[E.filename][k] # CR
          /\ E'.statusmsg.fmt = WRITTEN
          /\ KeyCtrlS )
        => /\ disk'[E.filename] = disk[E.filename]
           /\ E'.statusmsg = Msg(WRITTEN, <<Len(disk[E.filename])>>) ]_vars

\* C4 as the code has it: for a file without CR bytes that is empty or ends
\* in LF, a save that succeeds right after the file was opened leaves the
\* file's bytes as they were and reports their number as written.
C4_SaveKeepsTerminatedLfFile ==
    [][ ( /\ pc = "main" /\ E.filename # NULL /\ E.statusmsg.fmt = HELP
          /\ \A k \in 1..Len(disk[E.filename]) : disk[E.filename][k] # CR
          /\ \/ Len(disk[E.filename]) = 0
             \/ disk[E.filename][Len(disk[E.filename])] = LF
          /\ E'.statusmsg.fmt = WRITTEN
          /\ KeyCtrlS )
        => /\ disk'[E.filename] = disk[E.filename]
           /\ E'.statusmsg = Msg(WRITTEN, <<Len(disk[E.filename])>>) ]_vars

\* The file "a" LF LF was opened and saved: three bytes written, the same.
C4_Witness ==
    /\ pc = "main" /\ E.filename = ArgName /\ E.numrows = 2
    /\ E.statusmsg = Msg(WRITTEN, <<3>>)
    /\ disk[ArgName] = <<97, LF, LF>>

\* C5: when open(), ftruncate() or write() fails in editorSave, dirty, the
\* rows' bytes and the cursor are as they were before the save, the status
\* message is the "Can't save! I/O error: %s" one, and the program is back
\* in the main loop reading keys.
C5_FailedSaveKeepsState ==
    [][ (E'.statusmsg.fmt = CANT_SAVE /\ (KeyCtrlS \/ PromptKey))
        => /\ E'.dirty = E.dirty
           /\ E'.numrows = E.numrows
           /\ \A k \in 1..E.numrows :
                 /\ E'.row[k].chars = E.row[k].chars
                 /\ E'.row[k].size = E.row[k].size
                 /\ E'.row[k].idx = E.row[k].idx
           /\ E'.cx = E.cx /\ E'.cy = E.cy
           /\ pc' = "main" /\ exit_code' = -1 ]_vars

\* A save of an edited buffer failed in write() after part of the bytes:
\* the file is no longer what was loaded, the editor still holds the edit.
C5_Witness ==
    /\ pc = "main" /\ E.statusmsg.fmt = CANT_SAVE
    /\ E.dirty > 0 /\ E.numrows > 0 /\ E.cx > 0
    /\ E.filename = ArgName /\ disk[ArgName] # persisted

(***************************************************************************)
(* Rows                                                                    *)
(***************************************************************************)
\* C6: after every editing operation and for every row, the stored hl and
\* hl_open_comment are what the scan of the row's render gives when it is
\* started with in_comment equal to the stored hl_open_comment of the row
\* before it (0 for the first row).
C6_CommentStateConsistent ==
    pc = "main" /\ E.syntax # NO_SYNTAX =>
        \A k \in 1..E.numrows :
            \E sc \in {ScanRow(HLDB[E.syntax], E.row[k].render,
                               IF k > 1 /\ E.row[k - 1].hl_open_comment # 0
                               THEN 1 ELSE 0)} :
                /\ E.row[k].hl = sc.hl
                /\ E.row[k].hl_open_comment = sc.in_comment

\* C7: in every state, after row insertion and deletion, character insertion
\* and deletion, appending, the split of a row, the search highlight and its
\* restore, every row has one hl entry per byte of render: the lengths of hl
\* and of render are both rsize.
C7_HlRenderParity ==
    /\ Len(E.row) = E.numrows
    /\ \A k \in 1..E.numrows :
          /\ Len(E.row[k].hl) = Len(E.row[k].render)
          /\ Len(E.row[k].render) = E.row[k].rsize

\* A search hit is highlighted on an edited row whose tab makes the render
\* longer than the chars; the copy kept for the restore is as long as hl.
C7_Witness ==
    /\ pc = "find" /\ E.dirty > 0 /\ saved_hl # NULL
    /\ \E k \in 1..E.numrows :
          /\ saved_hl_line = k - 1
          /\ E.row[k].rsize > E.row[k].size
          /\ Len(saved_hl[1]) = E.row[k].rsize
          /\ \E j \in 1..E.row[k].rsize : E.row[k].hl[j] = HL_MATCH

\* C8: after any sequence of row insertions and deletions made by opening a
\* file, typing, Enter and the delete keys, the row at position i of the row
\* vector has idx = i, for every i from 0 to numrows - 1.
C8_RowIdx ==
    /\ Len(E.row) = E.numrows
    /\ \A i \in 0..(E.numrows - 1) : E.row[i + 1].idx = i

\* In the opened two-row file Enter made a third row and a delete key at the
\* start of row 1 joined it to row 0: the last row has moved down by one.
C8_Witness ==
    /\ pc = "main" /\ persisted # <<>>
    /\ E.dirty = 3 /\ E.numrows = 2 /\ E.cy = 0

(***************************************************************************)
(* The viewport                                                            *)
(***************************************************************************)
\* C9: with screenrows >= 1 and screencols >= 1, whenever the program waits
\* for a key (each wait follows an editorRefreshScreen, hence an
\* editorScroll, also the one after a search hit has set rowoff = numrows),
\* coloff <= rx < coloff + screencols and rowoff <= cy < rowoff + screenrows.
C9_CursorInViewport ==
    pc \in {"main", "saveas", "find"} /\ E.screenrows >= 1 /\ E.screencols >= 1
        => /\ E.coloff <= E.rx /\ E.rx < E.coloff + E.screencols
           /\ E.rowoff <= E.cy /\ E.cy < E.rowoff + E.screenrows

\* A search hit behind a tab: the callback has set rowoff = numrows and put
\* the cursor at column 8 or beyond, and the scroll has brought both offsets
\* back to the cursor.
C9_Witness ==
    /\ pc = "find" /\ saved_hl # NULL /\ last_match = E.cy
    /\ E.rx >= KILO_TAB_STOP
    /\ E.coloff = E.rx - E.screencols + 1
    /\ E.rowoff = E.cy /\ E.rowoff < E.numrows

\* C10: for every row, whatever its mix of tabs and other bytes, and every
\* cx from 0 to the row's size, editorRowRxToCx(row, editorRowCxToRx(row, cx))
\* is cx.
C10_CxRxRoundTrip ==
    \A k \in 1..E.numrows :
        \A cx \in 0..E.row[k].size :
            editorRowRxToCx(E.row[k], editorRowCxToRx(E.row[k], cx)) = cx

\* A search hit on the 'a' after a tab: the cursor was placed by
\* editorRowRxToCx on the byte at column 8, and the scroll's editorRowCxToRx
\* has given column 8 back.
C10_Witness ==
    /\ pc = "find" /\ saved_hl # NULL /\ E.cy < E.numrows
    /\ E.row[E.cy + 1].chars = <<TAB, 97>>
    /\ E.cx = 1 /\ E.rx = KILO_TAB_STOP

(***************************************************************************)
(* Rendering                                                               *)
(***************************************************************************)
\* C11: in every row, the byte at position j of chars occupies the columns
\* of render from editorRowCxToRx(row, j) up to editorRowCxToRx(row, j + 1):
\* a tab is between 1 and 8 spaces that end at a multiple of 8, any other
\* byte is itself in one column, in order; rsize is editorRowCxToRx(row, size).
C11_TabExpansion ==
    \A k \in 1..E.numrows :
        LET row == E.row[k]
        IN /\ row.rsize = editorRowCxToRx(row, row.size)
           /\ Len(row.render) = row.rsize
           /\ \A j \in 0..(row.size - 1) :
                \E from \in {editorRowCxToRx(row, j)} :
                \E to \in {editorRowCxToRx(row, j + 1)} :
                   IF row.chars[j + 1] = TAB
                   THEN /\ to - from \in 1..8
                        /\ to % 8 = 0
                        /\ \A c \in (from + 1)..to : row.render[c] = SPACE
                   ELSE /\ to = from + 1
                        /\ row.render[to] = row.chars[j + 1]

\* A row "a" TAB "a" has been rendered: seven spaces take the tab to column
\* 8 and the second "a" is in column 8.
C11_Witness ==
    /\ pc = "main"
    /\ \E k \in 1..E.numrows :
          /\ E.row[k].chars = <<97, TAB, 97>>
          /\ E.row[k].rsize = 9
          /\ E.row[k].render[9] = 97

(***************************************************************************)
(* Multi-line comments                                                     *)
(***************************************************************************)
\* C12: with a syntax selected, when typing or deleting a character leaves
\* the edited row with an open comment it did not have, then after that
\* keypress every later row up to the first one holding the close (or to the
\* end of the buffer) is tagged HL_MLCOMMENT on all its bytes and has
\* hl_open_comment set, and the row holding the close is tagged up to and
\* including it; when the keypress closes the comment the row had open,
\* the later rows up to the next one that opens a comment hold no
\* HL_MLCOMMENT tag and have hl_open_comment clear.
C12_CommentPropagation ==
    [][ ( /\ pc = "main" /\ E'.syntax # NO_SYNTAX
          /\ E'.numrows >= E.numrows /\ E'.cy < E'.numrows
          /\ editorRowsToString(E') # editorRowsToString(E)
          /\ KeyCharUpTo(TypedBytes, MaxCommentBytes) \/ KeyDelete )
        => LET i == E'.cy + 1
               was == IF i <= E.numrows THEN E.row[i].hl_open_comment ELSE 0
               now == E'.row[i].hl_open_comment
               Close(m) == StrStr(E'.row[m].render, <<42, 47>>)
               Open(m) == StrStr(E'.row[m].render, <<47, 42>>)
               Tags(m) == {E'.row[m].hl[c] : c \in 1..E'.row[m].rsize}
           IN /\ (was = 0 /\ now # 0) =>
                   /\ E'.row[i].hl[E'.row[i].rsize] = HL_MLCOMMENT
                   /\ \A j \in (i + 1)..E'.numrows :
                         (\A m \in (i + 1)..(j - 1) : Close(m) = -1) =>
                             IF Close(j) = -1
                             THEN /\ Tags(j) \subseteq {HL_MLCOMMENT}
                                  /\ E'.row[j].hl_open_comment # 0
                             ELSE \A c \in 1..(Close(j) + 2) :
                                     E'.row[j].hl[c] = HL_MLCOMMENT
              /\ (was # 0 /\ now = 0) =>
                   \A j \in (i + 1)..E'.numrows :
                       (\A m \in (i + 1)..j : Open(m) = -1) =>
                           /\ HL_MLCOMMENT \notin Tags(j)
                           /\ E'.row[j].hl_open_comment = 0 ]_vars

(***************************************************************************)
(* Incremental search                                                      *)
(***************************************************************************)
\* C13: in the search prompt, with the query as typed so far, ARROW_DOWN or
\* ARROW_RIGHT selects the next row below the last match that holds the
\* query, or the first such row of the buffer when there is none below (also
\* when nothing is selected yet); ARROW_UP or ARROW_LEFT from a selected row
\* selects the nearest such row above it, or the last one of the buffer when
\* there is none above; the cursor is on the selected row, and a row that
\* does not hold the query is never selected.
C13_SearchOrder ==
    [][ \A c \in {ARROW_DOWN, ARROW_RIGHT, ARROW_UP, ARROW_LEFT} :
          (pc = "find" /\ PromptKeyOn(c)) =>
            LET Hits == {r \in 0..(E.numrows - 1) :
                            StrStr(E.row[r + 1].render, buf) # -1}
                Below == {r \in Hits : r > last_match}
                Above == {r \in Hits : r < last_match}
                Min(S) == CHOOSE r \in S : \A q \in S : r <= q
                Max(S) == CHOOSE r \in S : \A q \in S : r >= q
                down == c \in {ARROW_DOWN, ARROW_RIGHT} \/ last_match = -1
            IN IF Hits = {}
               THEN last_match' = -1 /\ E'.cy = E.cy
               ELSE /\ last_match' \in Hits
                    /\ E'.cy = last_match'
                    /\ last_match' =
                          IF down
                          THEN (IF Below # {} THEN Min(Below) ELSE Min(Hits))
                          ELSE (IF Above # {} THEN Max(Above) ELSE Max(Hits)) ]_vars

\* Rows 0 and 2 of three hold the query and row 1 does not; the search has
\* gone up from row 0 and wrapped to row 2.
C13_Witness ==
    /\ pc = "find" /\ Len(buf) > 0 /\ E.numrows = 3
    /\ StrStr(E.row[1].render, buf) # -1
    /\ StrStr(E.row[2].render, buf) = -1
    /\ StrStr(E.row[3].render, buf) # -1
    /\ direction = -1 /\ last_match = 2 /\ E.cy = 2

\* C14: when a search is ended with ESC, cx, cy, coloff and rowoff are back at
\* their values from before Ctrl-F and every row's hl, rows with tabs that were
\* highlighted as a match included, equals its value from before the search.
C14_CancelRestores ==
    [][ (pc = "find" /\ pc' = "main" /\ PromptKeyOn(ESC)) =>
           /\ <<E'.cx, E'.cy, E'.coloff, E'.rowoff>> = saved_cursor
           /\ \A i \in 1..E.numrows : E'.row[i].hl = hl_before[i] ]_vars

\* C15: once the dispatcher has processed a key other than Ctrl-Q (qrun = 0),
\* the quit counter is KILO_QUIT_TIMES again, so a run of Ctrl-Q on a dirty
\* buffer counts down from the full number and exits only after all of its
\* warnings; with dirty = 0 the first Ctrl-Q of a run exits.
C15_QuitCounterReset ==
    /\ pc = "main" /\ qrun = 0 => quit_times = KILO_QUIT_TIMES
    /\ pc = "main" /\ qrun > 0 =>
          E.dirty # 0 /\ quit_times = KILO_QUIT_TIMES - qrun
    /\ pc = "exit" /\ exit_code = 0 =>
          qrun = (IF E.dirty = 0 THEN 1 ELSE KILO_QUIT_TIMES + 1)

\* Two warnings, then a key that is not Ctrl-Q: the counter is back at 3 while
\* the last warning is still in the message bar.
C15_Witness ==
    /\ pc = "main" /\ qrun = 0 /\ E.dirty # 0
    /\ E.statusmsg = Msg(WARNING, <<2>>)
    /\ quit_times = KILO_QUIT_TIMES

\* C16: whenever the program is about to read a key, in the main loop, in the
\* save-as prompt or in the search prompt, the terminal has received exactly
\* one write since the previous key was read (since the start, for the first
\* key), and that write is the frame of one editorRefreshScreen.
C16_OneRepaintPerKey ==
    pc \in {"main", "saveas", "find"} =>
        /\ Len(tty) = 1
        /\ tty[1].esc = Frame(E, clock).esc

\* Back in the main loop from a cancelled save-as prompt.
C16_Witness ==
    /\ pc = "main" /\ E.statusmsg.fmt = SAVE_ABORTED /\ E.dirty # 0
    /\ Len(tty) = 1 /\ tty[1].bar = E.statusmsg

\* C17 as stated: a status message that is on the screen and has become 5 or
\* more seconds old is eventually removed from the message bar, also when no
\* key is ever pressed and read() only times out.
C17_ExpiresWithoutKey ==
    (pc = "main" /\ MessageBarShown.fmt # "" /\ clock - E.statusmsg_time >= 5)
        ~> (MessageBarShown.fmt = "")

\* C17 amended: a timeout of read() stays inside editorReadKey and nothing is
\* repainted, so a status message 5 or more seconds old stays in the message
\* bar while no key is read; the repaint after the next key of the main loop
\* that sets no message removes it.
C17_ExpiresOnNextKey ==
    [][ /\ clock' # clock => UNCHANGED <<E, tty, pc>>
        /\ ( /\ clock' = clock /\ pc = "main" /\ pc' = "main"
             /\ clock - E.statusmsg_time >= 5
             /\ E'.statusmsg_time = E.statusmsg_time )
           => MessageBarShown' = Msg("", <<>>) ]_vars

\* The help message is still on the screen 5 seconds after it was set.
C17_Witness ==
    /\ pc = "main" /\ clock - E.statusmsg_time >= 5
    /\ E.statusmsg = Msg(HELP, <<>>) /\ MessageBarShown = E.statusmsg

\* C18: editorSave closes the descriptor it opened on every path, after a
\* failed ftruncate and a failed write as after a success: no editorSave
\* returns with its descriptor open, so no sequence of saves adds one.
C18_SaveClosesFd == save_fd_open = 0

\* C19: Enter with the cursor on an existing row splits that row at cx: row
\* cy keeps its first cx bytes (it is empty when cx = 0), the new row cy + 1
\* holds the rest, so the two together are the old row; numrows grows by one,
\* the other rows keep their content and order, and the cursor ends at
\* (0, cy + 1).
C19_InsertNewline ==
    [][ (pc = "main" /\ E.cy < E.numrows /\ KeyEnter) =>
          LET Chars(e, i) == SubSeq(e.row[i].chars, 1, e.row[i].size)
              old == Chars(E, E.cy + 1)
          IN /\ E'.numrows = E.numrows + 1
             /\ Chars(E', E.cy + 1) = SubSeq(old, 1, E.cx)
             /\ Chars(E', E.cy + 2) = SubSeq(old, E.cx + 1, Len(old))
             /\ Chars(E', E.cy + 1) \o Chars(E', E.cy + 2) = old
             /\ \A i \in 1..E.cy : Chars(E', i) = Chars(E, i)
             /\ \A i \in (E.cy + 2)..E.numrows : Chars(E', i + 1) = Chars(E, i)
             /\ E'.cx = 0 /\ E'.cy = E.cy + 1 ]_vars

\* "//*" split after its first byte, with the file's second row below.
C19_Witness ==
    /\ pc = "main" /\ E.numrows = 3 /\ E.dirty = 1
    /\ E.row[1].chars = <<47>> /\ E.row[2].chars = <<47, 42>>
    /\ E.row[3].size = 0
    /\ E.cx = 0 /\ E.cy = 1

\* C20: Backspace changes nothing at (0, 0) and with the cursor below the last
\* row; with cx > 0 it removes byte cx - 1 of row cy and decrements cx; with
\* cx = 0 and cy > 0 it replaces rows cy - 1 and cy by their concatenation,
\* numrows drops by one and the cursor is at (old size of row cy - 1, cy - 1).
\* On an empty buffer the keys a, Enter, b, Home, Backspace leave the single
\* row "ab" with the cursor at (1, 0).
C20_DelChar ==
    /\ LET e1 == editorRefreshScreen(editorInsertChar(initEditor, 97))
           e2 == editorRefreshScreen(editorInsertNewline(e1))
           e3 == editorRefreshScreen(editorInsertChar(e2, 98))
           e4 == editorRefreshScreen([e3 EXCEPT !.cx = 0])
           e5 == editorRefreshScreen(editorDelChar(e4))
       IN /\ e5.numrows = 1 /\ e5.row[1].size = 2 /\ e5.row[1].chars = <<97, 98>>
          /\ e5.cx = 1 /\ e5.cy = 0
    /\ [][ (pc = "main" /\ Dispatch(editorDelChar(E))) =>
            LET Chars(e, i) == SubSeq(e.row[i].chars, 1, e.row[i].size)
                cx == E.cx
                cy == E.cy
            IN IF cy = E.numrows \/ (cx = 0 /\ cy = 0)
               THEN /\ E'.numrows = E.numrows /\ E'.row = E.row
                    /\ E'.cx = cx /\ E'.cy = cy /\ E'.dirty = E.dirty
               ELSE IF cx > 0
               THEN /\ E'.numrows = E.numrows
                    /\ Chars(E', cy + 1) = SubSeq(Chars(E, cy + 1), 1, cx - 1)
                          \o SubSeq(Chars(E, cy + 1), cx + 1, E.row[cy + 1].size)
                    /\ \A i \in 1..E.numrows :
                          i # cy + 1 => Chars(E', i) = Chars(E, i)
                    /\ E'.cx = cx - 1 /\ E'.cy = cy
               ELSE /\ E'.numrows = E.numrows - 1
                    /\ Chars(E', cy) = Chars(E, cy) \o Chars(E, cy + 1)
                    /\ \A i \in 1..(cy - 1) : Chars(E', i) = Chars(E, i)
                    /\ \A i \in (cy + 2)..E.numrows :
                          Chars(E', i - 1) = Chars(E, i)
                    /\ E'.cx = E.row[cy].size /\ E'.cy = cy - 1 ]_vars

\* "/" and "/*", split from "//*" by Enter, joined again by Backspace.
C20_Witness ==
    /\ pc = "main" /\ E.numrows = 2 /\ E.dirty = 3
    /\ E.row[1].chars = <<47, 47, 42>> /\ E.row[2].size = 0
    /\ E.cx = 1 /\ E.cy = 0

C22_TtyRestoredOnExit ==
    (pc = "exit" /\ term.raw = 1) =>
        /\ Len(tty) >= 2
        /\ tty[Len(tty) - 1].esc = "ESC[2J" /\ tty[Len(tty)].esc = "ESC[H"
        /\ term.attrs = "og"
        /\ exit_code = 0 => term.status = 0
        /\ exit_code # 0 => term.status # 0

\* C23: when a keyword matches at position i of the render (prev_sep is
\* true, the scan is in no string and no comment, and the byte after the
\* keyword is a separator), the pass tags exactly the keyword's bytes with
\* its class, and the scan resumes at the byte right after the keyword with
\* prev_sep false, so that no byte is left out of the scan (a keyword that
\* ends the row ends the loop, wherever i stands then).
C23_KeywordStep ==
    [][ (/\ scan.st.i < Len(scan.render)
         /\ scan.st.prev_sep = 1 /\ scan.st.in_string = 0 /\ scan.st.in_comment = 0
         /\ KeywordAt(scan.render, scan.st.i, HLDB[1].keywords) # 0
         /\ scan'.render = scan.render)
        => LET kw == HLDB[1].keywords[KeywordAt(scan.render, scan.st.i,
                                                HLDB[1].keywords)]
               kw2 == kw[Len(kw)] = BAR
               klen == IF kw2 THEN Len(kw) - 1 ELSE Len(kw)
           IN /\ scan'.st.hl = MemSet(scan.st.hl, scan.st.i, klen,
                                      IF kw2 THEN HL_KEYWORD2 ELSE HL_KEYWORD1)
              /\ \/ scan'.st.i = scan.st.i + klen
                 \/ /\ scan.st.i + klen = Len(scan.render)
                    /\ scan'.st.i >= Len(scan.render)
              /\ scan'.st.prev_sep = 0 ]_vars

C25_EnterBackspace ==
    [][ (/\ pc = "main" /\ pc' = "main"
         /\ E.cy < E.numrows
         /\ E'.numrows = E.numrows + 1 /\ E'.cy = E.cy + 1 /\ E'.cx = 0)
        => \E e2 \in {editorDelChar(E')} :
              /\ e2.numrows = E.numrows
              /\ \A k \in 1..E.numrows : e2.row[k].chars = E.row[k].chars
              /\ e2.cx = E.cx /\ e2.cy = E.cy ]_vars

\* After an Enter in the middle of a row: both halves hold bytes and the
\* cursor is at the start of the second one.
C25_Witness ==
    /\ pc = "main" /\ E.dirty > 0
    /\ E.cx = 0 /\ E.cy >= 1 /\ E.cy < E.numrows
    /\ E.row[E.cy].size > 0 /\ E.row[E.cy + 1].size > 0

\* C26: from Ctrl-F until the prompt returns (on Enter or on ESC), no step
\* changes numrows, the chars or the render of any row, dirty or the
\* filename; what a step of the search may change is cx, cy (and rx with
\* them), rowoff, coloff, the status message and its time, and the hl of rows.
C26_SearchReadOnly ==
    [][ (pc = "find" \/ pc' = "find")
        => /\ E'.numrows = E.numrows
           /\ E'.dirty = E.dirty
           /\ E'.filename = E.filename
           /\ \A k \in 1..E.numrows :
                 /\ E'.row[k].chars = E.row[k].chars
                 /\ E'.row[k].render = E.row[k].render
                 /\ [E'.row[k] EXCEPT !.hl = <<>>] = [E.row[k] EXCEPT !.hl = <<>>]
           /\ [E' EXCEPT !.cx = 0, !.cy = 0, !.rx = 0, !.rowoff = 0, !.coloff = 0,
                         !.statusmsg = Msg("", <<>>), !.statusmsg_time = 0,
                         !.row = <<>>]
                = [E EXCEPT !.cx = 0, !.cy = 0, !.rx = 0, !.rowoff = 0, !.coloff = 0,
                            !.statusmsg = Msg("", <<>>), !.statusmsg_time = 0,
                            !.row = <<>>] ]_vars

\* In a search on an edited file: a hit has moved the cursor to another row
\* and marked the match in that row's hl.
C26_Witness ==
    /\ pc = "find" /\ E.dirty > 0 /\ saved_hl # NULL
    /\ E.cy # saved_cursor[2]
    /\ E.row[E.cy + 1].hl # hl_before[E.cy + 1]

====
